---------------------------- MODULE Spec2Model ----------------------------
(***************************************************************************)
(* Model of the multi-backend capture engine of UndownUnlock.              *)
(*                                                                         *)
(*  - the DXGI duplication session (DXGIOutputDuplication): construction,  *)
(*    _initialize_dxgi, _cleanup and the acquire / map / convert / release *)
(*    cycle of capture_screenshot, one step per driver call;               *)
(*  - the fallback orchestrators (ScreenCaptureProxy, AdvancedScreenCapture*)
(*    and EnhancedScreenCapture), one step per backend attempt.            *)
(*                                                                         *)
(* The display driver and the Win32 calls are the environment: each call   *)
(* returns one of the outcomes its call site distinguishes.                *)
(***************************************************************************)
EXTENDS Integers, Sequences, FiniteSets, TLC

(***************************************************************************)
(* Bounds of the model.                                                    *)
(***************************************************************************)
\* capture_screenshot calls made on the session in one behaviour
MaxCalls == 3
\* _cleanup calls made from outside _initialize_dxgi in one behaviour
MaxCleanups == 2

\* threads that may call into the session: the sequential caller, and the
\* pipe-client threads / hotkey thread of the concurrent specification
Caller == {1}
Threads == {1, 2}

VARIABLES
    session,        \* the fields of the DXGIOutputDuplication object
    built,          \* __init__ has run
    dxgi_duplication, \* AdvancedScreenCapture.dxgi_duplication is not None
    frameHeld,      \* driver: a frame acquired from the duplication is unreleased
    acquires,       \* driver: successful AcquireNextFrame calls
    releaseFrames,  \* driver: ReleaseFrame calls
    releases,       \* driver: IUnknown::Release calls made by _cleanup
    released,       \* the objects the latest _cleanup called Release on, in order
    shutdown,       \* DXGIOutputDuplicationCapture.__del__ has returned
    initFail,       \* the step at which _initialize_dxgi stopped ("none": success)
    inits,          \* runs of _initialize_dxgi
    pc,             \* per thread: position inside capture_screenshot
    pending,        \* per thread: what the try block left for the finally clause
    history,        \* outcomes of the completed capture_screenshot calls
    calls,          \* capture_screenshot calls started
    cleanups        \* _cleanup calls made by __del__

sessionVars == <<session, built, dxgi_duplication, frameHeld, acquires,
                 releaseFrames, releases, released, shutdown, initFail, inits,
                 pc, pending, history, calls, cleanups>>

\* the state of a capture request inside the fallback orchestrators
VARIABLES
    caps,       \* which capture objects the constructors managed to create
    entry,      \* the orchestrator the request was made to
    window,     \* the request's window_name (proxy) or handle: "None" or a name
    hwnd,       \* the window handle the backends are given: "None" or "h"
    cpc,        \* position of the request inside the orchestrator
    idx,        \* index of the method the running "for method in methods" is at
    attempts,   \* the backends invoked for this request, in order
    outcomes,   \* for each invoked backend: "fail" or "path"
    lastRaised, \* the backend invoked last raised an exception
    result,     \* what the orchestrator returned to its caller
    requests    \* requests started

chainVars == <<caps, entry, window, hwnd, cpc, idx, attempts, outcomes,
               lastRaised, result, requests>>

\* a top-level window and one call of a GDI backend that manipulates it
VARIABLES
    win,        \* the window: display affinity, style, placement, foreground
    entryWin,   \* the window as it was when the running call began
    wfn,        \* the backend method that is running (or ran last)
    wpc,        \* position inside the method
    locals,     \* the method's local variables
    wret,       \* what the method returned: "pending", "None" or "path"
    wcalls      \* calls started

winVars == <<win, entryWin, wfn, wpc, locals, wret, wcalls>>

\* one composition capture: WindowsGraphicsCapture.capture_window and the
\* GraphicsCaptureInterop.CaptureWindow it calls
VARIABLES
    target,     \* the request: the hwnd argument and what it denotes
    gpc,        \* position inside capture_window / CaptureWindow
    created,    \* the capture objects created so far
    disposed,   \* the capture objects disposed so far
    disposedFrames, \* the frames disposed so far
    attached,   \* the FrameArrived handler is attached
    pool,       \* frames waiting in the frame pool, oldest first
    arrived,    \* frames the capture session has produced
    taken,      \* frames taken from the pool by TryGetNextFrame, in order
    frame,      \* CaptureWindow's local "frame" (0: null)
    gotFrame,   \* CaptureWindow's local "gotFrame"
    semaphore,  \* count of frameSemaphore
    converted,  \* the frame whose surface was converted (0: none)
    gret,       \* what the capture returned: "pending", "None", "path"
    captures    \* capture requests started

wgcVars == <<target, gpc, created, disposed, disposedFrames, attached, pool,
             arrived, taken, frame, gotFrame, semaphore, converted, gret,
             captures>>

\* one conversion of a mapped texture or surface into an image
VARIABLES
    mapped,     \* the mapped buffer: width, height, RowPitch and its bytes pData
    image,      \* the image the conversion built
    ipc         \* "idle", "mapped" or "converted"

imgVars == <<mapped, image, ipc>>

\* one window capture that crops a monitor frame to the window
VARIABLES
    outputs,    \* DXGIOutputDuplicationCapture.outputs: the output index of
                \* each session that initialized, in order
    rect,       \* GetWindowRect of the window: left, top, right, bottom
    kfn,        \* the backend that is running: "none", "dxgi" or "driver"
    kpc,        \* position inside the backend
    monitor,    \* the monitor MonitorFromWindow returned
    opened,     \* the monitor frame loaded or built (img): output and size
    box,        \* the clamped crop rectangle
    saved,      \* the region of the frame that the saved file shows
    kret        \* what the backend returned: "pending", "None" or "path"

cropVars == <<outputs, rect, kfn, kpc, monitor, opened, box, saved, kret>>

\* the screenshot directory and one capture operation that saves into it
VARIABLES
    disk,       \* for each path: "absent", "empty", "partial" or "complete"
    clock,      \* datetime.now(), in microseconds
    fpc,        \* position inside the saving operation
    file_path,  \* the operation's local file_path
    native,     \* what CaptureWindow returned: "null" or "bytes"
    fret,       \* what the operation returned last: a path, or NoPath for None
    handed,     \* every path a capture operation has returned
    entryDisk   \* the directory as it was when the latest operation began

fileVars == <<disk, clock, fpc, file_path, native, fret, handed, entryDisk>>

\* one take_screenshot request inside AccessibilityController
VARIABLES
    message_data,   \* the request's "data": "none" before any request,
                    \* "not_dict", "no_window" or "window_name"
    hpc,            \* "idle" or "capturing" (inside the engine call)
    filename,       \* how the engine call ended: "not_called", "path",
                    \* "None" or "raised"
    response        \* the handler's return value

ipcVars == <<message_data, hpc, filename, response>>

\* the duplication sessions the constructors of the capture systems create
VARIABLES
    live,           \* the initialized sessions held: owner and output index
    opc,            \* position inside ScreenCaptureProxy.__init__
    num_monitors,   \* GetSystemMetrics(SM_CMONITORS)
    oindex,         \* the "i" of the loop of _initialize_outputs
    fullshot        \* one capture_full_screen call: the capture object, the
                    \* output_index of the session it used, what it returned

ownVars == <<live, opc, num_monitors, oindex, fullshot>>

\* one use of named_pipe_manager.SecurityManager
VARIABLES
    xpc,        \* "idle", "encrypted", "decrypted", "signed", "tampered",
                \* "verified"
    message,    \* the message dictionary given to encrypt_message/sign_message
    encrypted,  \* what encrypt_message returned: base64 characters
    decrypted,  \* what decrypt_message returned, or that it raised
    signed,     \* the signed message: message and signature
    tampering,  \* what was changed after signing
    verified    \* what verify_message returned: "pending", "True", "False"

secVars == <<xpc, message, encrypted, decrypted, signed, tampering, verified>>

\* one call of a GDI backend of EnhancedScreenCapture on a window
VARIABLES
    bfn,        \* the backend method that is running (or ran last)
    bpc,        \* position inside the method
    made,       \* the GDI objects the call obtained or created
    freed,      \* for each GDI object: the release / delete calls made on it
    bret,       \* what the method returned: "pending", "None" or "path"
    bcalls      \* calls started

gdiVars == <<bfn, bpc, made, freed, bret, bcalls>>

\* the NamedPipeServer: its accept loop, its client threads and stop()
VARIABLES
    running,        \* self.running
    pipe_handle,    \* self.pipe_handle: a pipe instance, or 0 for None
    lpc,            \* position of the thread that runs _server_loop
    stp,            \* position of the thread that calls stop()
    cl,             \* per pipe instance: position of its _handle_client thread
    instances,      \* pipe instances created by CreateNamedPipe
    closes,         \* per pipe instance: CloseHandle calls made on it
    reads,          \* messages ReadFile has delivered
    last,           \* the message read last: its pipe instance and bytes
    decrypts,       \* messages whose ciphertext was decrypted
    dispatches,     \* messages handed to a registered handler
    responses       \* responses written

pipeVars == <<running, pipe_handle, lpc, stp, cl, instances, closes, reads,
              last, decrypts, dispatches, responses>>

\* the components whose state is data rather than driver objects
dataVars == <<imgVars, cropVars, fileVars, ipcVars, ownVars, secVars, gdiVars,
              pipeVars>>

vars == <<sessionVars, chainVars, winVars, wgcVars, dataVars>>

\* what an action of one component leaves alone
notSession == <<chainVars, winVars, wgcVars, dataVars>>
notChain == <<sessionVars, winVars, wgcVars, dataVars>>
notWindow == <<sessionVars, chainVars, wgcVars, dataVars>>
notWgc == <<sessionVars, chainVars, winVars, dataVars>>
notData == <<sessionVars, chainVars, winVars, wgcVars>>
notImg == <<notData, cropVars, fileVars, ipcVars, ownVars, secVars, gdiVars,
            pipeVars>>
notCrop == <<notData, imgVars, fileVars, ipcVars, ownVars, secVars, gdiVars,
            pipeVars>>
notFile == <<notData, imgVars, cropVars, ipcVars, ownVars, secVars, gdiVars,
            pipeVars>>
\* the request handler drives the orchestrators
notIpc == <<sessionVars, winVars, wgcVars, imgVars, cropVars, fileVars, ownVars,
            secVars, gdiVars,
            pipeVars>>
notOwn == <<notData, imgVars, cropVars, fileVars, ipcVars, secVars, gdiVars,
            pipeVars>>
notSec == <<notData, imgVars, cropVars, fileVars, ipcVars, ownVars, gdiVars,
            pipeVars>>
notGdi == <<notData, imgVars, cropVars, fileVars, ipcVars, ownVars, secVars,
            pipeVars>>
notPipe == <<notData, imgVars, cropVars, fileVars, ipcVars, ownVars, secVars,
             gdiVars>>

(***************************************************************************)
(* DXGIOutputDuplication.__init__: the fields before _initialize_dxgi.     *)
(* A COM pointer field is TRUE when it holds an object, FALSE when None.   *)
(* acquired_frame keeps Python's three values.                             *)
(***************************************************************************)
NewSession ==
    [device |-> FALSE, device_context |-> FALSE, dxgi_output |-> FALSE,
     dxgi_output_duplication |-> FALSE, acquired_frame |-> "None",
     staging_texture |-> FALSE, initialized |-> FALSE]

\* Python truthiness of acquired_frame (None and False are falsy)
Truthy(flag) == flag = "True"

\* a _cleanup that releases in the order of acquisition
ResourcesForward ==
    <<"device", "device_context", "dxgi_output", "dxgi_output_duplication",
      "staging_texture">>

\* the COM pointer fields in the order _cleanup releases them
Resources ==
    <<"staging_texture", "dxgi_output_duplication", "dxgi_output",
      "device_context", "device">>

ResourceSet == {Resources[i] : i \in 1..Len(Resources)}

\* one "try: if self.x: self.x.Release(); self.x = None / except: warn" block
\* of _cleanup; raisers are the objects whose Release raises
ReleaseOne(s, r, raisers) ==
    IF s[r] /\ r \notin raisers THEN [s EXCEPT ![r] = FALSE] ELSE s

RECURSIVE ReleaseFrom(_, _, _)
ReleaseFrom(s, i, raisers) ==
    IF i > Len(Resources) THEN s
    ELSE ReleaseFrom(ReleaseOne(s, Resources[i], raisers), i + 1, raisers)

\* _cleanup stops in its outer except when the ReleaseFrame call raises:
\* the call raises by itself, or there is no duplication object to call it on
CleanupAborts(s, raisers) ==
    /\ Truthy(s.acquired_frame)
    /\ ("ReleaseFrame" \in raisers \/ ~s.dxgi_output_duplication)

\* DXGIOutputDuplication._cleanup: the session it leaves
Cleanup(s, raisers) ==
    IF CleanupAborts(s, raisers) THEN s
    ELSE LET s1 == IF Truthy(s.acquired_frame)
                   THEN [s EXCEPT !.acquired_frame = "None"] ELSE s
         IN [ReleaseFrom(s1, 1, raisers) EXCEPT !.initialized = FALSE]

\* the Release calls one _cleanup makes
CleanupReleaseCalls(s, raisers) ==
    IF CleanupAborts(s, raisers) THEN 0
    ELSE Cardinality({r \in ResourceSet : s[r]})

\* the fields of s that hold an object
Held(s) == {r \in ResourceSet : s[r]}

\* the objects one _cleanup calls Release on, in the order of the calls: a
\* block whose field is None makes no call, a call that raises is a call
RECURSIVE ReleaseCallsFrom(_, _)
ReleaseCallsFrom(s, i) ==
    IF i > Len(Resources) THEN <<>>
    ELSE (IF s[Resources[i]] THEN <<Resources[i]>> ELSE <<>>)
            \o ReleaseCallsFrom(s, i + 1)

CleanupReleaseLog(s, raisers) ==
    IF CleanupAborts(s, raisers) THEN <<>> ELSE ReleaseCallsFrom(s, 1)

\* the driver calls one _cleanup can make on session s, each of which may raise
CleanupTargets(s) ==
    {r \in ResourceSet : s[r]} \cup
    (IF Truthy(s.acquired_frame) THEN {"ReleaseFrame"} ELSE {})

\* whether one _cleanup calls ReleaseFrame
CleanupCallsReleaseFrame(s) ==
    Truthy(s.acquired_frame) /\ s.dxgi_output_duplication

(***************************************************************************)
(* _initialize_dxgi.  failAt names the first step that fails:              *)
(*   CreateDevice     D3D11CreateDevice fails for HARDWARE and for WARP    *)
(*   QueryDevice .. QueryOutput1   a check_hresult before DuplicateOutput  *)
(*   DuplMax          DuplicateOutput: DXGI_ERROR_NOT_CURRENTLY_AVAILABLE  *)
(*   DuplicateOutput  DuplicateOutput fails otherwise                      *)
(*   DuplDesc, CreateTexture   a check_hresult after the duplication       *)
(*   none             every step succeeds                                  *)
(***************************************************************************)
InitSteps ==
    {"CreateDevice", "QueryDevice", "GetParent", "EnumOutputs", "OutputDesc",
     "QueryOutput1", "DuplMax", "DuplicateOutput", "DuplDesc",
     "CreateTexture", "none"}

RaisesBeforeDuplication ==
    {"QueryDevice", "GetParent", "EnumOutputs", "OutputDesc", "QueryOutput1",
     "DuplicateOutput"}

RaisesAfterDuplication == {"DuplDesc", "CreateTexture"}

WithDevice(s) == [s EXCEPT !.device = TRUE, !.device_context = TRUE]

WithDuplication(s) == [WithDevice(s) EXCEPT !.dxgi_output_duplication = TRUE]

\* the session _initialize_dxgi leaves when the maximum number of
\* duplicators is reached: "return False", the except clause is not entered
\* (DXGI_ERROR_NOT_CURRENTLY_AVAILABLE is read as the driver's HRESULT of
\* that name; the module compares with it without defining it)
InitDuplMax(s, raisers) == WithDevice(s)

InitializeDxgi(s, failAt, raisers) ==
    CASE failAt = "CreateDevice" -> s
      [] failAt \in RaisesBeforeDuplication -> Cleanup(WithDevice(s), raisers)
      [] failAt = "DuplMax" -> InitDuplMax(s, raisers)
      [] failAt \in RaisesAfterDuplication ->
            Cleanup(WithDuplication(s), raisers)
      [] OTHER -> [WithDuplication(s) EXCEPT !.staging_texture = TRUE,
                                             !.initialized = TRUE]

\* whether this run of _initialize_dxgi goes through _cleanup
InitCleansUp(failAt) ==
    failAt \in RaisesBeforeDuplication \cup RaisesAfterDuplication

\* the session as it is when the failing step raises into the except clause
AtFailure(s, failAt) ==
    CASE failAt \in RaisesBeforeDuplication -> WithDevice(s)
      [] failAt \in RaisesAfterDuplication -> WithDuplication(s)
      [] OTHER -> s

InitReleaseLog(s, failAt, raisers) ==
    IF InitCleansUp(failAt)
    THEN CleanupReleaseLog(AtFailure(s, failAt), raisers)
    ELSE <<>>

\* the driver objects in the order _initialize_dxgi obtains them:
\* D3D11CreateDevice (device, then context), EnumOutputs, DuplicateOutput,
\* CreateTexture2D
AcquisitionOrder ==
    <<"device", "device_context", "dxgi_output", "dxgi_output_duplication",
      "staging_texture">>

InitReleaseCalls(s, failAt, raisers) ==
    CASE failAt \in RaisesBeforeDuplication ->
            CleanupReleaseCalls(WithDevice(s), raisers)
      [] failAt \in RaisesAfterDuplication ->
            CleanupReleaseCalls(WithDuplication(s), raisers)
      [] OTHER -> 0


(***************************************************************************)
(* Construction.  DXGIOutputDuplicationCapture._initialize_outputs builds  *)
(* the session of the monitor and keeps it only when it initialized;       *)
(* AdvancedScreenCapture.__init__ keeps the capture object only when it    *)
(* reports initialized, otherwise sets dxgi_duplication to None.           *)
(***************************************************************************)
EngineKeeps(s) == s.initialized

Construct ==
    /\ ~built
    /\ \E failAt \in InitSteps,
          raisers \in SUBSET CleanupTargets(WithDuplication(NewSession)) :
          /\ session' = InitializeDxgi(NewSession, failAt, raisers)
          /\ releases' = releases + InitReleaseCalls(NewSession, failAt, raisers)
          /\ released' = InitReleaseLog(NewSession, failAt, raisers)
          /\ initFail' = failAt
    /\ built' = TRUE
    /\ inits' = inits + 1
    /\ dxgi_duplication' = EngineKeeps(session')
    /\ UNCHANGED <<frameHeld, acquires, releaseFrames, shutdown, pc, pending,
                   history, calls, cleanups>>
    /\ UNCHANGED notSession

(***************************************************************************)
(* capture_screenshot, one action per driver call.                         *)
(***************************************************************************)
\* the call returns: its outcome is appended to the history
Return(t, outcome) ==
    /\ pc' = [pc EXCEPT ![t] = "idle"]
    /\ pending' = [pending EXCEPT ![t] = "none"]
    /\ history' = Append(history, outcome)

\* the value capture_screenshot hands to its caller for each way it ends:
\* "return filename" after the save, "return None" everywhere else
Returned(outcome) == IF outcome = "path" THEN "path" ELSE "None"

Goto(t, label) ==
    /\ pc' = [pc EXCEPT ![t] = label]
    /\ UNCHANGED history

\* "if not self.initialized: return None", else enter the try block; no
\* caller has a reference to the session once a __del__ has run on it or
\* on the engine
CallCapture(t) ==
    /\ built
    /\ cleanups = 0
    /\ pc[t] = "idle"
    /\ calls < MaxCalls
    /\ calls' = calls + 1
    /\ IF ~session.initialized
       THEN Return(t, "uninitialized")
       ELSE Goto(t, "acquire") /\ UNCHANGED pending
    /\ UNCHANGED <<session, built, dxgi_duplication, frameHeld, acquires,
                   releaseFrames, releases, released, shutdown, initFail, inits, cleanups>>
    /\ UNCHANGED notSession

\* a session that is torn down whenever the acquire fails, timeout included
AfterAcquireFailureTornDown(s, hr) == Cleanup(s, {})

\* what capture_screenshot does with the session after AcquireNextFrame
\* returned a failure HRESULT (timeout, or a driver error such as access
\* lost / device removed): it returns None and leaves the session as it is
AfterAcquireFailure(s, hr) == s

\* the result of AcquireNextFrame; the driver hands out a frame only when
\* the previous one was released
AcquireResults == {"ok", "timeout", "driver_error", "raise"}

AcquireNextFrame(t) ==
    /\ pc[t] = "acquire"
    /\ \E hr \in AcquireResults :
        CASE hr = "ok" ->
                /\ ~frameHeld
                /\ frameHeld' = TRUE
                /\ acquires' = acquires + 1
                /\ session' = [session EXCEPT !.acquired_frame = "True"]
                /\ Goto(t, "copy")
                /\ UNCHANGED pending
          [] hr \in {"timeout", "driver_error"} ->
                /\ session' = AfterAcquireFailure(session, hr)
                /\ Return(t, hr)
                /\ UNCHANGED <<frameHeld, acquires>>
          [] OTHER ->
                /\ Goto(t, "except")
                /\ UNCHANGED <<session, frameHeld, acquires, pending>>
    /\ UNCHANGED <<built, dxgi_duplication, releaseFrames, releases, released, shutdown, initFail,
                   inits, calls, cleanups>>
    /\ UNCHANGED notSession

\* QueryInterface(ID3D11Texture2D), CopyResource, Release of the desktop
\* resource and Map: any failure raises into the outer except clause
CopyAndMap(t) ==
    /\ pc[t] = "copy"
    /\ \E ok \in BOOLEAN : Goto(t, IF ok THEN "convert" ELSE "except")
    /\ UNCHANGED <<session, built, dxgi_duplication, frameHeld, acquires,
                   releaseFrames, releases, released, shutdown, initFail, inits, pending, calls,
                   cleanups>>
    /\ UNCHANGED notSession

\* the inner try block: numpy conversion and img.save; it leaves either the
\* file name to return or an exception for the finally clause
ConvertAndSave(t) ==
    /\ pc[t] = "convert"
    /\ \E ok \in BOOLEAN :
          pending' = [pending EXCEPT ![t] = IF ok THEN "path" ELSE "exception"]
    /\ Goto(t, "unmap")
    /\ UNCHANGED <<session, built, dxgi_duplication, frameHeld, acquires,
                   releaseFrames, releases, released, shutdown, initFail, inits, calls, cleanups>>
    /\ UNCHANGED notSession

\* finally: Unmap; when it raises, the rest of the finally clause is skipped
\* and the pending return value is dropped
Unmap(t) ==
    /\ pc[t] = "unmap"
    /\ \E ok \in BOOLEAN :
          IF ok THEN Goto(t, "release") /\ UNCHANGED pending
          ELSE /\ Goto(t, "except")
               /\ pending' = [pending EXCEPT ![t] = "none"]
    /\ UNCHANGED <<session, built, dxgi_duplication, frameHeld, acquires,
                   releaseFrames, releases, released, shutdown, initFail, inits, calls, cleanups>>
    /\ UNCHANGED notSession

\* the outcome of one ReleaseFrame call: it returns, or it raises having
\* released the frame or not
ReleaseResults == {"ok", "raise_released", "raise_held"}

HeldAfter(held, r) == IF r = "raise_held" THEN held ELSE FALSE

\* finally: ReleaseFrame, then acquired_frame = False
ReleaseFrameFinally(t) ==
    /\ pc[t] = "release"
    /\ releaseFrames' = releaseFrames + 1
    /\ \E r \in ReleaseResults :
          /\ frameHeld' = HeldAfter(frameHeld, r)
          /\ IF r = "ok"
             THEN /\ session' = [session EXCEPT !.acquired_frame = "False"]
                  /\ IF pending[t] = "path"
                     THEN Return(t, "path")
                     ELSE Goto(t, "except") /\ UNCHANGED pending
             ELSE /\ Goto(t, "except")
                  /\ pending' = [pending EXCEPT ![t] = "none"]
                  /\ UNCHANGED session
    /\ UNCHANGED <<built, dxgi_duplication, acquires, releases, released, shutdown, initFail,
                   inits, calls, cleanups>>
    /\ UNCHANGED notSession

\* whether the outer except clause calls ReleaseFrame
ExceptReleases(s) == Truthy(s.acquired_frame)

\* the outer except clause: release the frame if the flag says one is held
\* (an exception of ReleaseFrame is swallowed), clear the flag, return None
ExceptHandler(t) ==
    /\ pc[t] = "except"
    /\ IF ExceptReleases(session)
       THEN /\ releaseFrames' = releaseFrames + 1
            /\ \E r \in ReleaseResults : frameHeld' = HeldAfter(frameHeld, r)
            /\ session' = [session EXCEPT !.acquired_frame = "False"]
       ELSE UNCHANGED <<releaseFrames, frameHeld, session>>
    /\ Return(t, "error")
    /\ UNCHANGED <<built, dxgi_duplication, acquires, releases, released, shutdown, initFail,
                   inits, calls, cleanups>>
    /\ UNCHANGED notSession

(***************************************************************************)
(* __del__: _cleanup called from outside the constructor.  No thread is    *)
(* inside a method of the object then.                                     *)
(***************************************************************************)
\* the driver calls that raise in one _cleanup made by a finalizer: none
\* of them, one of them, or all of them
RaiserSets(s) ==
    {{}, CleanupTargets(s)} \cup {{r} : r \in CleanupTargets(s)}

\* one call of _cleanup on the session, from outside the constructor
CallCleanup ==
    /\ cleanups' = cleanups + 1
    /\ \E raisers \in RaiserSets(session) :
          /\ session' = Cleanup(session, raisers)
          /\ releases' = releases + CleanupReleaseCalls(session, raisers)
          /\ released' = CleanupReleaseLog(session, raisers)
          /\ releaseFrames' = releaseFrames +
                (IF CleanupCallsReleaseFrame(session) THEN 1 ELSE 0)
          /\ frameHeld' = IF CleanupCallsReleaseFrame(session)
                             /\ "ReleaseFrame" \notin raisers
                          THEN FALSE ELSE frameHeld

Teardown ==
    /\ built
    /\ \A t \in DOMAIN pc : pc[t] = "idle"
    /\ cleanups < MaxCleanups
    /\ CallCleanup
    /\ UNCHANGED <<built, dxgi_duplication, acquires, shutdown, initFail,
                   inits, pc, pending, history, calls>>
    /\ UNCHANGED notSession

(***************************************************************************)
(* DXGIOutputDuplicationCapture.__del__: _cleanup on every session of      *)
(* self.outputs.  _initialize_outputs appends a session only when it       *)
(* initialized; a session it did not keep has lost its last reference when *)
(* _initialize_outputs returned, so its own __del__ has run by now.        *)
(***************************************************************************)
InOutputs == dxgi_duplication

Shutdown ==
    /\ built
    /\ ~shutdown
    /\ \A t \in DOMAIN pc : pc[t] = "idle"
    /\ IF InOutputs THEN cleanups < MaxCleanups ELSE cleanups > 0
    /\ shutdown' = TRUE
    /\ IF InOutputs
       THEN CallCleanup
       ELSE UNCHANGED <<session, releases, released, releaseFrames, frameHeld,
                        cleanups>>
    /\ UNCHANGED <<built, dxgi_duplication, acquires, initFail, inits, pc,
                   pending, history, calls>>
    /\ UNCHANGED notSession

CaptureStep(t) ==
    \/ CallCapture(t)
    \/ AcquireNextFrame(t)
    \/ CopyAndMap(t)
    \/ ConvertAndSave(t)
    \/ Unmap(t)
    \/ ReleaseFrameFinally(t)
    \/ ExceptHandler(t)

(***************************************************************************)
(* The fallback orchestrators.                                             *)
(***************************************************************************)
\* capture requests served in one behaviour
MaxRequests == 2

\* np.mean(img_array) < 5 in capture_using_gdi_window_redir
DarkThreshold == 5

\* mean pixel intensities a captured frame may have
Means == {0, 4, 5, 128}

\* the advanced chain with the duplication backend tried before the
\* composition capture
AdvancedMethodsSwapped ==
    <<"adv_dxgi", "adv_wgc", "adv_direct3d", "adv_display_driver",
      "adv_gdi_redir">>

\* AdvancedScreenCapture.capture_screenshot: methods
AdvancedMethods ==
    <<"adv_wgc", "adv_dxgi", "adv_direct3d", "adv_display_driver",
      "adv_gdi_redir">>

\* EnhancedScreenCapture.capture_screenshot: methods
EnhancedMethods ==
    <<"enh_gdi", "enh_accessibility", "enh_direct_memory",
      "enh_temp_affinity", "enh_magnification">>

NoImage == [kind |-> "none", mean |-> 0]
Raise == [kind |-> "raise", mean |-> 0]
Path(m) == [kind |-> "path", mean |-> m]

\* what a backend call may do: return None, raise, or return the path of a
\* saved image (whose mean intensity is m)
AnyResult == {NoImage, Raise} \cup {Path(m) : m \in Means}

\* capture_using_gdi_window_redir.  dimsOk: the rectangle has positive
\* width and height; blit: the BitBlt (inside the window manipulation, or
\* the direct one of the except clause) produced a frame of mean m1;
\* printWindow: the PrintWindow fallback, entered when the frame is dark,
\* produced a frame of mean m2 (otherwise it raised and the first frame is
\* kept); saveOk: conversion and img.save did not raise
GdiWindowRedir(dimsOk, blit, m1, printWindow, m2, saveOk) ==
    IF ~dimsOk \/ ~blit THEN NoImage
    ELSE LET img == IF m1 < DarkThreshold /\ printWindow THEN m2 ELSE m1
         IN IF saveOk THEN Path(img) ELSE NoImage

GdiWindowRedirResults ==
    {GdiWindowRedir(d, b, m1, pw, m2, sv) :
        d \in BOOLEAN, b \in BOOLEAN, m1 \in Means, pw \in BOOLEAN,
        m2 \in Means, sv \in BOOLEAN}

\* the capability test at the head of a backend method: without its capture
\* object the method returns None at once
Available(m) ==
    CASE m = "adv_wgc" -> caps.adv_wgc
      [] m = "adv_dxgi" -> dxgi_duplication
      [] m = "adv_direct3d" -> caps.d3d_available
      [] OTHER -> TRUE

BackendResults(m) ==
    IF ~Available(m) THEN {NoImage}
    ELSE IF m = "adv_gdi_redir" THEN GdiWindowRedirResults
    ELSE AnyResult

\* a loop without the try/except: the exception leaves the orchestrator
IsolateMissing(r) == r

\* "try: result = method(hwnd) ... except Exception: log": the exception of
\* a backend becomes that backend's failure
Isolate(r) == IF r.kind = "raise" THEN NoImage ELSE r

\* "if result: return result"
Succeeded(r) == r.kind = "path"

\* the orchestrator returns r to its caller (or lets an exception through)
Finish(m, r) ==
    /\ cpc' = "done"
    /\ result' = [kind |-> IF r.kind = "raise" THEN "raised" ELSE r.kind,
                  backend |-> m, mean |-> r.mean]

\* one backend was invoked and r is what came out of its isolating boundary
Record(m, raw, r) ==
    /\ attempts' = Append(attempts, m)
    /\ outcomes' = Append(outcomes, IF Succeeded(r) THEN "path" ELSE "fail")
    /\ lastRaised' = (raw.kind = "raise")

Entries == {"proxy", "advanced", "enhanced"}

StartRequest ==
    /\ built
    /\ cpc \in {"idle", "done"}
    /\ requests < MaxRequests
    /\ requests' = requests + 1
    /\ \E e \in Entries, w \in {"None", "name"} :
          /\ entry' = e
          /\ window' = w
          /\ hwnd' = IF e = "proxy" THEN "None" ELSE IF w = "None" THEN "None" ELSE "h"
          /\ cpc' = CASE e = "proxy" -> "resolve"
                      [] e = "advanced" -> "advanced"
                      [] OTHER -> "enhanced"
    /\ idx' = 1
    /\ attempts' = <<>>
    /\ outcomes' = <<>>
    /\ lastRaised' = FALSE
    /\ result' = [kind |-> "pending", backend |-> "", mean |-> 0]
    /\ UNCHANGED caps
    /\ UNCHANGED notChain

\* ScreenCaptureProxy.capture_screenshot: "if window_name: hwnd =
\* self.get_window_handle_by_name(window_name); if not hwnd: return None".
\* The lookup (win32gui.EnumWindows) finds a window, finds none, or raises;
\* it is outside every try block of the method.
ResolveResults == {"found", "not_found", "raise"}

\* what get_window_handle_by_name returns: the first matching visible
\* window, or None
HandleOf(r) == IF r = "found" THEN "h" ELSE "None"

\* a proxy that goes on to its backends without a handle
NoHandleIgnored(handle) == FALSE

\* "if not hwnd: return None"
NoHandle(handle) == handle = "None"

ProxyResolve ==
    /\ cpc = "resolve"
    /\ IF window = "None"
       THEN /\ cpc' = "wgc"
            /\ UNCHANGED <<hwnd, result>>
       ELSE \E r \in ResolveResults :
               IF r = "raise"
               THEN /\ Finish("resolve", Raise)
                    /\ UNCHANGED hwnd
               ELSE /\ hwnd' = HandleOf(r)
                    /\ IF NoHandle(HandleOf(r))
                       THEN Finish("resolve", NoImage)
                       ELSE cpc' = "wgc" /\ UNCHANGED result
    /\ UNCHANGED <<caps, entry, window, idx, attempts, outcomes, lastRaised,
                   requests>>
    /\ UNCHANGED notChain

\* the proxy's own WindowsGraphicsCapture object, inside try/except
ProxyWGC ==
    /\ cpc = "wgc"
    /\ IF caps.proxy_wgc
       THEN \E raw \in AnyResult :
               LET r == Isolate(raw) IN
               /\ Record("proxy_wgc", raw, r)
               /\ IF r.kind = "raise" \/ Succeeded(r)
                  THEN Finish("proxy_wgc", r)
                  ELSE cpc' = "dxgi" /\ UNCHANGED result
       ELSE /\ cpc' = "dxgi"
            /\ UNCHANGED <<attempts, outcomes, lastRaised, result>>
    /\ UNCHANGED <<caps, entry, window, hwnd, idx, requests>>
    /\ UNCHANGED notChain

\* the proxy's own DXGIOutputDuplicationCapture object, inside try/except
ProxyDXGI ==
    /\ cpc = "dxgi"
    /\ IF caps.proxy_dxgi
       THEN \E raw \in AnyResult :
               LET r == Isolate(raw) IN
               /\ Record("proxy_dxgi", raw, r)
               /\ IF r.kind = "raise" \/ Succeeded(r)
                  THEN Finish("proxy_dxgi", r)
                  ELSE cpc' = "advanced" /\ UNCHANGED result
       ELSE /\ cpc' = "advanced"
            /\ UNCHANGED <<attempts, outcomes, lastRaised, result>>
    /\ idx' = 1
    /\ UNCHANGED <<caps, entry, window, hwnd, requests>>
    /\ UNCHANGED notChain

\* one iteration of the loop of AdvancedScreenCapture.capture_screenshot;
\* after the last method it returns None, and the proxy goes on to
\* enhanced_capture.capture_screenshot
AdvancedStep ==
    /\ cpc = "advanced"
    /\ LET m == AdvancedMethods[idx] IN
       \E raw \in BackendResults(m) :
          LET r == Isolate(raw) IN
          /\ Record(m, raw, r)
          /\ IF r.kind = "raise" \/ Succeeded(r)
             THEN Finish(m, r) /\ UNCHANGED idx
             ELSE IF idx < Len(AdvancedMethods)
             THEN idx' = idx + 1 /\ UNCHANGED <<cpc, result>>
             ELSE IF entry = "advanced"
             THEN Finish("advanced", NoImage) /\ UNCHANGED idx
             ELSE cpc' = "enhanced" /\ idx' = 1 /\ UNCHANGED result
    /\ UNCHANGED <<caps, entry, window, hwnd, requests>>
    /\ UNCHANGED notChain

\* a fallback that is attempted whatever the request was
FallsBackAlways(window_handle) == TRUE

\* "if window_handle is not None:" after the loop found no result
FallsBack(window_handle) == window_handle # "None"

\* one iteration of the loop of EnhancedScreenCapture.capture_screenshot;
\* after the last method: the full-screen fallback when a handle was given
EnhancedStep ==
    /\ cpc = "enhanced"
    /\ LET m == EnhancedMethods[idx] IN
       \E raw \in BackendResults(m) :
          LET r == Isolate(raw) IN
          /\ Record(m, raw, r)
          /\ IF r.kind = "raise" \/ Succeeded(r)
             THEN Finish(m, r) /\ UNCHANGED idx
             ELSE IF idx < Len(EnhancedMethods)
             THEN idx' = idx + 1 /\ UNCHANGED <<cpc, result>>
             ELSE IF FallsBack(hwnd)
             THEN cpc' = "fallback" /\ UNCHANGED <<idx, result>>
             ELSE Finish("enhanced", NoImage) /\ UNCHANGED idx
    /\ UNCHANGED <<caps, entry, window, hwnd, requests>>
    /\ UNCHANGED notChain

\* "return self.capture_full_screen()" inside try/except, then return None
EnhancedFallback ==
    /\ cpc = "fallback"
    /\ \E raw \in AnyResult :
          LET r == Isolate(raw) IN
          /\ Record("enh_fullscreen", raw, r)
          /\ Finish("enh_fullscreen", r)
    /\ UNCHANGED <<caps, entry, window, hwnd, idx, requests>>
    /\ UNCHANGED notChain

ChainStep ==
    \/ StartRequest
    \/ ProxyResolve
    \/ ProxyWGC
    \/ ProxyDXGI
    \/ AdvancedStep
    \/ EnhancedStep
    \/ EnhancedFallback

(***************************************************************************)
(* The GDI backends that change window state while they capture:           *)
(* EnhancedScreenCapture.capture_using_bitblt_with_temporary_affinity and  *)
(* AdvancedScreenCapture.capture_using_gdi_window_redir.                   *)
(***************************************************************************)
\* calls of these two methods in one behaviour
MaxWinCalls == 2

WDA_NONE == 0
WDA_MONITOR == 1
WDA_EXCLUDEFROMCAPTURE == 17

Affinities == {WDA_NONE, WDA_MONITOR, WDA_EXCLUDEFROMCAPTURE}

\* the style bits the method clears, and one it leaves alone
StyleBits == {"WS_DLGFRAME", "WS_SYSMENU", "WS_VISIBLE"}

\* the windows a call may be given
Windows ==
    [affinity : Affinities,
     owned : BOOLEAN,           \* the window belongs to the calling process
     style : SUBSET StyleBits,
     placement : {"restored", "maximized", "moved"},
     foreground : {"target", "other", "none"}]

NoLocals ==
    [current_affinity |-> WDA_NONE, current_style |-> {},
     window_placement |-> "restored", foreground_hwnd |-> "none",
     CAPTUREBLT |-> FALSE, raised |-> FALSE]

\* user32.SetWindowDisplayAffinity: it changes the flag only of a window
\* that belongs to the calling process, and returns FALSE otherwise
SetWindowDisplayAffinity(w, value) ==
    IF w.owned THEN [w EXCEPT !.affinity = value] ELSE w

\* "if current_affinity.value == WDA_EXCLUDEFROMCAPTURE:
\*      SetWindowDisplayAffinity(hwnd, WDA_NONE)"
ClearAffinity(w, cur) ==
    IF cur = WDA_EXCLUDEFROMCAPTURE
    THEN SetWindowDisplayAffinity(w, WDA_NONE) ELSE w

\* "Restore original affinity if we changed it"
RestoreAffinity(w, cur) ==
    IF cur = WDA_EXCLUDEFROMCAPTURE
    THEN SetWindowDisplayAffinity(w, cur) ELSE w

\* an except clause that only logs and returns None
ExceptRestoreMissing(w, cur) == w

\* the except clause: "if 'current_affinity' in locals() and
\* current_affinity.value == WDA_EXCLUDEFROMCAPTURE: SetWindowDisplay..."
ExceptRestore(w, cur) ==
    IF cur = WDA_EXCLUDEFROMCAPTURE
    THEN SetWindowDisplayAffinity(w, cur) ELSE w

\* the method returns v
WReturn(v) ==
    /\ wpc' = "done"
    /\ wret' = v

WBegin(fn) ==
    /\ wpc \in {"idle", "done"}
    /\ wcalls < MaxWinCalls
    /\ wcalls' = wcalls + 1
    /\ wfn' = fn
    /\ entryWin' = win
    /\ locals' = NoLocals

\* "if hwnd is None: return self.capture_full_screen()", else the try block
AffinityBegin ==
    /\ WBegin("temp_affinity")
    /\ \E h \in {"None", "h"} :
          IF h = "None"
          THEN \E r \in {"None", "path"} : WReturn(r)
          ELSE wpc' = "get" /\ wret' = "pending"
    /\ UNCHANGED win
    /\ UNCHANGED notWindow

\* GetWindowDisplayAffinity: on failure "return None"
AffinityGet ==
    /\ wfn = "temp_affinity" /\ wpc = "get"
    /\ \E ok \in BOOLEAN :
          IF ok
          THEN /\ locals' = [locals EXCEPT !.current_affinity = win.affinity]
               /\ wpc' = "clear"
               /\ UNCHANGED wret
          ELSE /\ WReturn("None")
               /\ UNCHANGED locals
    /\ UNCHANGED <<win, entryWin, wfn, wcalls>>
    /\ UNCHANGED notWindow

\* the protection is removed; a failure of the call is only logged
AffinityClear ==
    /\ wfn = "temp_affinity" /\ wpc = "clear"
    /\ win' = ClearAffinity(win, locals.current_affinity)
    /\ wpc' = "capture"
    /\ UNCHANGED <<entryWin, wfn, locals, wret, wcalls>>
    /\ UNCHANGED notWindow

\* GetWindowRect, the device contexts and the bitmap, BitBlt (PrintWindow
\* when it raises), the conversion and the GDI clean-up: any of them may
\* raise into the except clause
AffinityCapture ==
    /\ wfn = "temp_affinity" /\ wpc = "capture"
    /\ \E ok \in BOOLEAN :
          /\ wpc' = IF ok THEN "restore" ELSE "except"
          /\ locals' = [locals EXCEPT !.raised = ~ok]
    /\ UNCHANGED <<win, entryWin, wfn, wret, wcalls>>
    /\ UNCHANGED notWindow

AffinityRestore ==
    /\ wfn = "temp_affinity" /\ wpc = "restore"
    /\ win' = RestoreAffinity(win, locals.current_affinity)
    /\ wpc' = "save"
    /\ UNCHANGED <<entryWin, wfn, locals, wret, wcalls>>
    /\ UNCHANGED notWindow

\* "return self._save_screenshot(...)", still inside the try block
AffinitySave ==
    /\ wfn = "temp_affinity" /\ wpc = "save"
    /\ \E r \in {"path", "None", "raise"} :
          IF r = "raise"
          THEN /\ wpc' = "except"
               /\ locals' = [locals EXCEPT !.raised = TRUE]
               /\ UNCHANGED wret
          ELSE WReturn(r) /\ UNCHANGED locals
    /\ UNCHANGED <<win, entryWin, wfn, wcalls>>
    /\ UNCHANGED notWindow

AffinityExcept ==
    /\ wfn = "temp_affinity" /\ wpc = "except"
    /\ win' = ExceptRestore(win, locals.current_affinity)
    /\ WReturn("None")
    /\ UNCHANGED <<entryWin, wfn, locals, wcalls>>
    /\ UNCHANGED notWindow

\* "temp_style = current_style & ~WS_DLGFRAME & ~WS_SYSMENU"
TempStyle(style) == style \ {"WS_DLGFRAME", "WS_SYSMENU"}

RedirBegin ==
    /\ WBegin("gdi_redir")
    /\ wpc' = "prepare"
    /\ wret' = "pending"
    /\ UNCHANGED win
    /\ UNCHANGED notWindow

\* GetWindowRect, the dimension test, GetForegroundWindow, the device
\* contexts and the bitmap: "return None" on a bad rectangle, and the outer
\* except clause returns None when one of the calls raises
RedirPrepare ==
    /\ wfn = "gdi_redir" /\ wpc = "prepare"
    /\ \E r \in {"ok", "bad_dimensions", "raise"} :
          IF r = "ok"
          THEN /\ locals' = [locals EXCEPT !.foreground_hwnd = win.foreground]
               /\ wpc' = "set_style"
               /\ UNCHANGED wret
          ELSE WReturn("None") /\ UNCHANGED locals
    /\ UNCHANGED <<win, entryWin, wfn, wcalls>>
    /\ UNCHANGED notWindow

\* GetWindowPlacement, GetWindowLong, SetWindowLong(temp_style)
RedirSetStyle ==
    /\ wfn = "gdi_redir" /\ wpc = "set_style"
    /\ \E ok \in BOOLEAN :
          IF ok
          THEN /\ locals' = [locals EXCEPT !.current_style = win.style,
                                           !.window_placement = win.placement]
               /\ win' = [win EXCEPT !.style = TempStyle(win.style)]
               /\ wpc' = "set_pos"
          ELSE /\ locals' = [locals EXCEPT !.raised = TRUE]
               /\ wpc' = "inner_except"
               /\ UNCHANGED win
    /\ UNCHANGED <<entryWin, wfn, wret, wcalls>>
    /\ UNCHANGED notWindow

\* SetWindowPos(hwnd, HWND_TOP, ..., SWP_FRAMECHANGED): without
\* SWP_NOACTIVATE the window may become the foreground window, and a
\* maximized window is given an explicit rectangle
RedirSetWindowPos ==
    /\ wfn = "gdi_redir" /\ wpc = "set_pos"
    /\ \E ok \in BOOLEAN :
          IF ok
          THEN /\ \E p \in {win.placement, "moved"},
                     f \in {win.foreground, "target"} :
                     win' = [win EXCEPT !.placement = p, !.foreground = f]
               /\ wpc' = "bitblt"
               /\ UNCHANGED locals
          ELSE /\ locals' = [locals EXCEPT !.raised = TRUE]
               /\ wpc' = "inner_except"
               /\ UNCHANGED win
    /\ UNCHANGED <<entryWin, wfn, wret, wcalls>>
    /\ UNCHANGED notWindow

\* "CAPTUREBLT = 0x40000000", then save_dc.BitBlt
RedirBitBlt ==
    /\ wfn = "gdi_redir" /\ wpc = "bitblt"
    /\ \E ok \in BOOLEAN :
          /\ locals' = [locals EXCEPT !.CAPTUREBLT = TRUE, !.raised = ~ok]
          /\ wpc' = IF ok THEN "restore" ELSE "inner_except"
    /\ UNCHANGED <<win, entryWin, wfn, wret, wcalls>>
    /\ UNCHANGED notWindow

\* SetWindowLong(current_style), SetWindowPlacement(window_placement),
\* "if foreground_hwnd: SetForegroundWindow(foreground_hwnd)"
RestoreResults == {"ok", "raise_SetWindowPlacement", "raise_SetForegroundWindow"}

RestoreWindow(w, loc, r) ==
    [w EXCEPT !.style = loc.current_style,
              !.placement = IF r = "raise_SetWindowPlacement"
                            THEN @ ELSE loc.window_placement,
              !.foreground = IF r = "ok" /\ loc.foreground_hwnd # "none"
                             THEN loc.foreground_hwnd ELSE @]

RedirRestore ==
    /\ wfn = "gdi_redir" /\ wpc = "restore"
    /\ \E r \in RestoreResults :
          /\ win' = RestoreWindow(win, locals, r)
          /\ wpc' = IF r = "ok" THEN "convert" ELSE "inner_except"
          /\ locals' = [locals EXCEPT !.raised = (r # "ok")]
    /\ UNCHANGED <<entryWin, wfn, wret, wcalls>>
    /\ UNCHANGED notWindow

\* "except Exception: log; try: save_dc.BitBlt(..., SRCCOPY | CAPTUREBLT)
\* except Exception: return None".  The name CAPTUREBLT is bound only once
\* the first BitBlt was reached.
RedirInnerExcept ==
    /\ wfn = "gdi_redir" /\ wpc = "inner_except"
    /\ IF ~locals.CAPTUREBLT
       THEN WReturn("None")
       ELSE \E ok \in BOOLEAN :
               IF ok THEN wpc' = "convert" /\ UNCHANGED wret
               ELSE WReturn("None")
    /\ UNCHANGED <<win, entryWin, wfn, locals, wcalls>>
    /\ UNCHANGED notWindow

\* conversion, dark-frame test, PrintWindow, img.save
RedirConvert ==
    /\ wfn = "gdi_redir" /\ wpc = "convert"
    /\ \E r \in {"path", "None"} : WReturn(r)
    /\ UNCHANGED <<win, entryWin, wfn, locals, wcalls>>
    /\ UNCHANGED notWindow

WindowStep ==
    \/ AffinityBegin
    \/ AffinityGet
    \/ AffinityClear
    \/ AffinityCapture
    \/ AffinityRestore
    \/ AffinitySave
    \/ AffinityExcept
    \/ RedirBegin
    \/ RedirPrepare
    \/ RedirSetStyle
    \/ RedirSetWindowPos
    \/ RedirBitBlt
    \/ RedirRestore
    \/ RedirInnerExcept
    \/ RedirConvert

(***************************************************************************)
(* Composition capture: WindowsGraphicsCapture.capture_window and the      *)
(* GraphicsCaptureInterop.CaptureWindow it calls.  The capture session     *)
(* produces frames from StartCapture on; FrameArrived runs the handler on  *)
(* its own thread, between any two steps of the waiting thread.            *)
(***************************************************************************)
\* capture requests in one behaviour
MaxCaptures == 2
\* frames one capture session produces in one behaviour
MaxFrames == 3
\* Direct3D11CaptureFramePool.Create(..., 2, size): buffers of the pool
FrameCount == 2

\* the hwnd argument: None, 0, the handle of a destroyed window, a window
Handles == {"None", "zero", "destroyed", "valid"}

\* the window_name argument: None, a title no window has, a window's title
Names == {"None", "unknown", "known"}

\* "if hwnd is None and window_name:" FindWindowByTitle, FindWindow,
\* _find_window_by_partial_title: a window's handle, or 0
ResolveHandle(h, name) ==
    IF h = "None" /\ name # "None"
    THEN (IF name = "known" THEN "valid" ELSE "zero")
    ELSE h

\* "if not hwnd or hwnd == 0: return None" lets the handle through
Usable(h) == h \notin {"None", "zero"}

\* a CaptureWindow without the early window test
IsWindowUnchecked(h) == TRUE

\* user32.IsWindow
IsWindow(h) == h = "valid"

\* frames handed out by the pool and not disposed, plus frames waiting in it
Outstanding ==
    Len(pool) +
    Cardinality({i \in DOMAIN taken : taken[i] \notin disposedFrames})

\* capture_window returns v
GReturn(v) ==
    /\ gpc' = "done"
    /\ gret' = v

\* CaptureWindow's catch clause: log, return null; capture_window then
\* returns None
GCatch == GReturn("None")

WgcRequest ==
    /\ gpc \in {"idle", "done"}
    /\ captures < MaxCaptures
    /\ captures' = captures + 1
    /\ \E h \in Handles, n \in Names, sup \in BOOLEAN :
          /\ target' = [hwnd |-> h, window_name |-> n, supported |-> sup]
          /\ IF sup THEN gpc' = "resolve" /\ gret' = "pending"
             ELSE GReturn("None")
    /\ created' = {}
    /\ disposed' = {}
    /\ disposedFrames' = {}
    /\ attached' = FALSE
    /\ pool' = <<>>
    /\ arrived' = 0
    /\ taken' = <<>>
    /\ frame' = 0
    /\ gotFrame' = FALSE
    /\ semaphore' = 0
    /\ converted' = 0
    /\ UNCHANGED notWgc

\* capture_window up to the call of CaptureWindow
WgcResolve ==
    /\ gpc = "resolve"
    /\ IF Usable(ResolveHandle(target.hwnd, target.window_name))
       THEN gpc' = "iswindow" /\ UNCHANGED gret
       ELSE GReturn("None")
    /\ UNCHANGED <<target, created, disposed, disposedFrames, attached, pool,
                   arrived, taken, frame, gotFrame, semaphore, converted,
                   captures>>
    /\ UNCHANGED notWgc

\* "if (!IsWindow(hWnd)) throw new ArgumentException(...)"
WgcIsWindow ==
    /\ gpc = "iswindow"
    /\ IF IsWindow(ResolveHandle(target.hwnd, target.window_name))
       THEN gpc' = "item" /\ UNCHANGED gret
       ELSE GCatch
    /\ UNCHANGED <<target, created, disposed, disposedFrames, attached, pool,
                   arrived, taken, frame, gotFrame, semaphore, converted,
                   captures>>
    /\ UNCHANGED notWgc

\* one object-creating step of CaptureWindow: it returns the object or throws
Create(obj, next) ==
    /\ \E ok \in BOOLEAN :
          IF ok
          THEN /\ created' = created \cup {obj}
               /\ gpc' = next
               /\ UNCHANGED gret
          ELSE GCatch /\ UNCHANGED created
    /\ UNCHANGED <<target, disposed, disposedFrames, attached, pool, arrived,
                   taken, frame, gotFrame, semaphore, converted, captures>>
    /\ UNCHANGED notWgc

\* InitializeDirect3D and CreateCaptureItemForWindow (null: throw)
WgcCreateItem == gpc = "item" /\ Create("item", "pool")

\* Direct3D11CaptureFramePool.Create
WgcCreatePool == gpc = "pool" /\ Create("framePool", "session")

\* framePool.CreateCaptureSession and session.StartCapture
WgcStartCapture == gpc = "session" /\ Create("session", "attach")

\* "framePool.FrameArrived += handler"
WgcAttach ==
    /\ gpc = "attach"
    /\ attached' = TRUE
    /\ gpc' = "wait"
    /\ UNCHANGED <<target, created, disposed, disposedFrames, pool, arrived,
                   taken, frame, gotFrame, semaphore, converted, gret,
                   captures>>
    /\ UNCHANGED notWgc

\* the started session puts a frame into the pool and FrameArrived is
\* raised; the handler, when attached, takes the oldest frame of the pool:
\* "frame = framePool.TryGetNextFrame(); if (frame != null)
\* { gotFrame = true; frameSemaphore.Release(); }"
FrameArrived ==
    /\ "session" \in created
    /\ "session" \notin disposed
    /\ arrived < MaxFrames
    /\ Outstanding < FrameCount
    /\ arrived' = arrived + 1
    /\ LET filled == Append(pool, arrived + 1) IN
       IF attached
       THEN /\ frame' = Head(filled)
            /\ pool' = Tail(filled)
            /\ taken' = Append(taken, Head(filled))
            /\ gotFrame' = TRUE
            /\ semaphore' = semaphore + 1
       ELSE /\ pool' = filled
            /\ UNCHANGED <<frame, taken, gotFrame, semaphore>>
    /\ UNCHANGED <<target, gpc, created, disposed, disposedFrames, attached,
                   converted, gret, captures>>
    /\ UNCHANGED notWgc

\* "if (!frameSemaphore.Wait(TimeSpan.FromSeconds(5))) throw new
\* TimeoutException(...)": the wait ends when the semaphore was released,
\* or after five seconds without a release
WgcWait ==
    /\ gpc = "wait"
    /\ IF semaphore > 0
       THEN /\ semaphore' = semaphore - 1
            /\ gpc' = "convert"
            /\ UNCHANGED gret
       ELSE /\ GCatch
            /\ UNCHANGED semaphore
    /\ UNCHANGED <<target, created, disposed, disposedFrames, attached, pool,
                   arrived, taken, frame, gotFrame, converted, captures>>
    /\ UNCHANGED notWgc

\* "if (gotFrame && frame != null)": frame.Surface, SurfaceToBitmap and
\* bitmap.Save to the memory stream; any of them may throw
WgcConvert ==
    /\ gpc = "convert"
    /\ IF gotFrame /\ frame # 0
       THEN \E ok \in BOOLEAN :
               IF ok
               THEN /\ converted' = frame
                    /\ gpc' = "dispose_frame"
                    /\ UNCHANGED gret
               ELSE GCatch /\ UNCHANGED converted
       ELSE /\ gpc' = "dispose_session"
            /\ UNCHANGED <<converted, gret>>
    /\ UNCHANGED <<target, created, disposed, disposedFrames, attached, pool,
                   arrived, taken, frame, gotFrame, semaphore, captures>>
    /\ UNCHANGED notWgc

\* "frame.Dispose()": the frame the variable refers to now
WgcDisposeFrame ==
    /\ gpc = "dispose_frame"
    /\ disposedFrames' = disposedFrames \cup {frame}
    /\ gpc' = "dispose_session"
    /\ UNCHANGED <<target, created, disposed, attached, pool, arrived, taken,
                   frame, gotFrame, semaphore, converted, gret, captures>>
    /\ UNCHANGED notWgc

\* "session.Dispose(); framePool.Dispose(); return imageBytes"; then
\* capture_window returns the file's path, or None when no file and no
\* bytes came out
WgcDispose ==
    /\ gpc = "dispose_session"
    /\ disposed' = disposed \cup {"session", "framePool"}
    /\ \E r \in {"path", "None"} :
          GReturn(IF converted # 0 THEN r ELSE "None")
    /\ UNCHANGED <<target, created, disposedFrames, attached, pool, arrived,
                   taken, frame, gotFrame, semaphore, converted, captures>>
    /\ UNCHANGED notWgc

WgcStep ==
    \/ WgcRequest
    \/ WgcResolve
    \/ WgcIsWindow
    \/ WgcCreateItem
    \/ WgcCreatePool
    \/ WgcStartCapture
    \/ WgcAttach
    \/ FrameArrived
    \/ WgcWait
    \/ WgcConvert
    \/ WgcDisposeFrame
    \/ WgcDispose

(***************************************************************************)
(* Conversion of a mapped frame into an image.                             *)
(*                                                                         *)
(* The driver maps a width x height texture of 4-byte BGRA pixels with a   *)
(* row pitch of its choice, a multiple of 4 that is at least width * 4.    *)
(* Buffers are indexed from 0 as in the code; the byte at offset i of the  *)
(* buffers drawn here is (seed + i) % 256, so that every offset of one     *)
(* buffer holds a different value.                                         *)
(***************************************************************************)
\* widest and tallest texture mapped
MaxWidth == 2
MaxHeight == 2
\* most padding pixels the driver appends to a row
MaxPadding == 2
\* largest value of the first byte of a mapped buffer
MaxSeed == 3

\* D3D11_MAPPED_SUBRESOURCE / DXGI_MAPPED_RECT together with the size of
\* the texture they map
MappedBuffers ==
    { [width |-> w, height |-> h, RowPitch |-> 4 * (w + pad),
       pData |-> [i \in 0..(4 * (w + pad) * h - 1) |-> (seed + i) % 256]] :
      w \in 1..MaxWidth, h \in 1..MaxHeight, pad \in 0..MaxPadding,
      seed \in 0..MaxSeed }

NoBuffer == [width |-> 0, height |-> 0, RowPitch |-> 0, pData |-> <<>>]
NoImage2D == [by |-> "none", width |-> 0, height |-> 0, px |-> <<>>]

\* img_array.reshape((height, RowPitch // 4, 4)) of the flat byte array
Reshape(m) ==
    [y \in 0..(m.height - 1) |->
        [x \in 0..((m.RowPitch \div 4) - 1) |->
            [c \in 0..3 |-> m.pData[(y * (m.RowPitch \div 4) + x) * 4 + c]]]]

\* img_array[:, :, [2, 1, 0]] and Image.fromarray: an RGB image with as
\* many columns as the array has
FromArray(m) ==
    LET arr == Reshape(m)
        cols == m.RowPitch \div 4
    IN  [by |-> "dxgi", width |-> cols, height |-> m.height,
         px |-> [p \in (0..(cols - 1)) \X (0..(m.height - 1)) |->
                    [R |-> arr[p[2]][p[1]][2], G |-> arr[p[2]][p[1]][1],
                     B |-> arr[p[2]][p[1]][0]]]]

\* the row loop of SurfaceToBitmap: CopyMemory of width * 4 bytes from
\* source row y to row y of a Format32bppArgb bitmap (stride width * 4)
CopyRows(m) ==
    [k \in 0..(m.width * 4 * m.height - 1) |->
        m.pData[(k \div (m.width * 4)) * m.RowPitch + (k % (m.width * 4))]]

\* the bitmap SurfaceToBitmap returns: Format32bppArgb keeps a pixel as the
\* bytes B, G, R, A
ToBitmap(m) ==
    LET bits == CopyRows(m)
        destStride == m.width * 4
    IN  [by |-> "wgc", width |-> m.width, height |-> m.height,
         px |-> [p \in (0..(m.width - 1)) \X (0..(m.height - 1)) |->
                    [R |-> bits[p[2] * destStride + 4 * p[1] + 2],
                     G |-> bits[p[2] * destStride + 4 * p[1] + 1],
                     B |-> bits[p[2] * destStride + 4 * p[1]],
                     A |-> bits[p[2] * destStride + 4 * p[1] + 3]]]]

\* device_context.Map / dxgiResource.Map: the driver hands out a buffer
MapTexture ==
    /\ ipc = "idle"
    /\ \E m \in MappedBuffers : mapped' = m
    /\ ipc' = "mapped"
    /\ UNCHANGED image
    /\ UNCHANGED notImg

\* capture_screenshot, from the mapped staging texture to the PIL image
DxgiConvert ==
    /\ ipc = "mapped"
    /\ image' = FromArray(mapped)
    /\ ipc' = "converted"
    /\ UNCHANGED mapped
    /\ UNCHANGED notImg

\* GraphicsCaptureInterop.SurfaceToBitmap
SurfaceToBitmap ==
    /\ ipc = "mapped"
    /\ image' = ToBitmap(mapped)
    /\ ipc' = "converted"
    /\ UNCHANGED mapped
    /\ UNCHANGED notImg

(***************************************************************************)
(* Window capture by cropping a monitor frame: capture_window of           *)
(* DXGIOutputDuplicationCapture and capture_using_display_driver of        *)
(* AdvancedScreenCapture called with a window handle.                      *)
(*                                                                         *)
(* The desktop has two monitors of different sizes, the primary one at the *)
(* origin and output i showing monitor i (the order the code assumes).     *)
(* Rectangles are left, top, right, bottom with right and bottom excluded. *)
(***************************************************************************)
\* how far beyond the desktop a window may begin
MaxOffset == 2
\* widest and tallest window
MaxExtent == 2

Max(a, b) == IF a >= b THEN a ELSE b
Min(a, b) == IF a <= b THEN a ELSE b

\* GetMonitorInfo(...)["Monitor"] of each monitor
Monitors ==
    [i \in {0, 1} |->
        IF i = 0 THEN [left |-> 0, top |-> 0, right |-> 4, bottom |-> 3]
                 ELSE [left |-> 4, top |-> 0, right |-> 7, bottom |-> 2]]

\* the bounding rectangle of the desktop
Desktop == [left |-> 0, top |-> 0, right |-> 7, bottom |-> 3]

\* the rectangles GetWindowRect may report
WindowRects ==
    { [left |-> l, top |-> t, right |-> l + w, bottom |-> t + h] :
      l \in (Desktop.left - MaxOffset)..(Desktop.right + MaxOffset - 1),
      t \in (Desktop.top - MaxOffset)..(Desktop.bottom + MaxOffset - 1),
      w \in 1..MaxExtent, h \in 1..MaxExtent }

\* the sessions _initialize_outputs kept: every output that initialized
OutputLists == { <<>>, <<0>>, <<1>>, <<0, 1>> }

\* the area a rectangle shares with a monitor
Overlap(r, m) ==
    Max(0, Min(r.right, m.right) - Max(r.left, m.left))
      * Max(0, Min(r.bottom, m.bottom) - Max(r.top, m.top))

\* the squared distance between a rectangle and a monitor
Distance(r, m) ==
    LET dx == Max(0, Max(m.left - r.right + 1, r.left - m.right + 1))
        dy == Max(0, Max(m.top - r.bottom + 1, r.top - m.bottom + 1))
    IN  dx * dx + dy * dy

\* win32api.MonitorFromWindow: the monitors with the largest share of the
\* window; for a window on no monitor the default the flag names
MonitorFromWindow(r, flag) ==
    LET on == { i \in DOMAIN Monitors : Overlap(r, Monitors[i]) > 0 }
    IN  IF on # {}
        THEN { i \in on : \A j \in on :
                 Overlap(r, Monitors[i]) >= Overlap(r, Monitors[j]) }
        ELSE IF flag = "MONITOR_DEFAULTTOPRIMARY" THEN {0}
        ELSE { i \in DOMAIN Monitors : \A j \in DOMAIN Monitors :
                 Distance(r, Monitors[i]) <= Distance(r, Monitors[j]) }

NoFrame == [output |-> 0 - 1, width |-> 0, height |-> 0]
NoBox == [left |-> 0, top |-> 0, right |-> 0, bottom |-> 0]
NoRegion == [output |-> 0 - 1, left |-> 0, top |-> 0, right |-> 0, bottom |-> 0]

\* the file capture_screenshot of output i saves: RowPitch // 4 columns
OutputFrame(i, pad) ==
    [output |-> i, width |-> (Monitors[i].right - Monitors[i].left) + pad,
     height |-> Monitors[i].bottom - Monitors[i].top]

\* capture_window: the window's rectangle relative to the monitor, clamped
\* to the loaded image
RelativeBox(r, m, im) ==
    LET width == r.right - r.left
        height == r.bottom - r.top
        relative_left == r.left - m.left
        relative_top == r.top - m.top
        relative_right == relative_left + width
        relative_bottom == relative_top + height
    IN  [left |-> Max(0, relative_left), top |-> Max(0, relative_top),
         right |-> Min(im.width, relative_right),
         bottom |-> Min(im.height, relative_bottom)]

\* capture_using_display_driver: the same against the monitor's size
DriverBox(r, m) ==
    LET width == m.right - m.left
        height == m.bottom - m.top
    IN  [left |-> Max(0, r.left - m.left), top |-> Max(0, r.top - m.top),
         right |-> Min(width, r.right - m.left),
         bottom |-> Min(height, r.bottom - m.top)]

\* Image.crop: an inverted box raises in current Pillow and gave an empty
\* image in older releases; the region is what the new image shows
CropResults(im, b) ==
    IF b.right < b.left \/ b.bottom < b.top
    THEN { [raises |-> TRUE, region |-> NoRegion],
           [raises |-> FALSE,
            region |-> [output |-> im.output, left |-> b.left, top |-> b.top,
                        right |-> Max(b.left, b.right),
                        bottom |-> Max(b.top, b.bottom)]] }
    ELSE { [raises |-> FALSE,
            region |-> [output |-> im.output, left |-> b.left, top |-> b.top,
                        right |-> b.right, bottom |-> b.bottom]] }

\* Image.save: an image without pixels cannot be encoded, and writing the
\* file of any image may fail
SaveResults(region) ==
    IF region.right = region.left \/ region.bottom = region.top
    THEN {"raise"} ELSE {"ok", "raise"}

\* the whole frame as a region
Whole(im) ==
    [output |-> im.output, left |-> 0, top |-> 0, right |-> im.width,
     bottom |-> im.height]

KReturn(value, region) ==
    /\ kret' = value
    /\ saved' = region
    /\ kpc' = "done"

\* capture_window: the guard, GetWindowRect, MonitorFromWindow and
\* GetMonitorInfo
DxgiWindowLocate ==
    /\ kpc = "idle"
    /\ kfn' = "dxgi"
    /\ \/ /\ outputs = <<>>
          /\ KReturn("None", NoRegion)
          /\ UNCHANGED monitor
       \/ /\ outputs # <<>>
          /\ \/ /\ \E i \in MonitorFromWindow(rect, "MONITOR_DEFAULTTONEAREST") :
                      monitor' = i
                /\ kpc' = "capture"
                /\ UNCHANGED <<kret, saved>>
             \/ /\ KReturn("None", NoRegion)     \* a Win32 call raised
                /\ UNCHANGED monitor
    /\ UNCHANGED <<outputs, rect, opened, box>>
    /\ UNCHANGED notCrop

\* capture_window: the loop that picks the session ("if i == output_index"
\* with output_index = 0), its capture_screenshot and Image.open
DxgiWindowCapture ==
    /\ kpc = "capture"
    /\ kfn = "dxgi"
    /\ \/ /\ \E pad \in 0..MaxPadding : opened' = OutputFrame(outputs[1], pad)
          /\ kpc' = "crop"
          /\ UNCHANGED <<kret, saved>>
       \/ /\ KReturn("None", NoRegion)    \* capture_screenshot returned None
          /\ UNCHANGED opened
    /\ UNCHANGED <<outputs, rect, kfn, monitor, box>>
    /\ UNCHANGED notCrop

\* capture_window: clamp, crop and save
DxgiWindowCrop ==
    /\ kpc = "crop"
    /\ kfn = "dxgi"
    /\ box' = RelativeBox(rect, Monitors[monitor], opened)
    /\ \E c \in CropResults(opened, box') :
          IF c.raises THEN KReturn("None", NoRegion)
          ELSE \E w \in SaveResults(c.region) :
                  IF w = "raise" THEN KReturn("None", NoRegion)
                  ELSE KReturn("path", c.region)
    /\ UNCHANGED <<outputs, rect, kfn, monitor, opened>>
    /\ UNCHANGED notCrop

\* capture_using_display_driver: MonitorFromWindow and GetMonitorInfo
DriverLocate ==
    /\ kpc = "idle"
    /\ kfn' = "driver"
    /\ \/ /\ \E i \in MonitorFromWindow(rect, "MONITOR_DEFAULTTOPRIMARY") :
                monitor' = i
          /\ kpc' = "bitblt"
          /\ UNCHANGED <<kret, saved>>
       \/ /\ KReturn("None", NoRegion)           \* a Win32 call raised
          /\ UNCHANGED monitor
    /\ UNCHANGED <<outputs, rect, opened, box>>
    /\ UNCHANGED notCrop

\* capture_using_display_driver: the bitmap of the monitor's size, BitBlt
\* from the monitor's origin and Image.frombuffer
DriverBitBlt ==
    /\ kpc = "bitblt"
    /\ kfn = "driver"
    /\ \/ /\ opened' = OutputFrame(monitor, 0)
          /\ kpc' = "crop"
          /\ UNCHANGED <<kret, saved>>
       \/ /\ KReturn("None", NoRegion)           \* a GDI call raised
          /\ UNCHANGED opened
    /\ UNCHANGED <<outputs, rect, kfn, monitor, box>>
    /\ UNCHANGED notCrop

\* capture_using_display_driver: "if hwnd:" to the return
DriverCrop ==
    /\ kpc = "crop"
    /\ kfn = "driver"
    /\ box' = DriverBox(rect, Monitors[monitor])
    /\ LET region == IF box'.left < box'.right /\ box'.top < box'.bottom
                     THEN (CHOOSE c \in CropResults(opened, box') : TRUE).region
                     ELSE Whole(opened)
       IN  \E w \in SaveResults(region) :
              IF w = "raise" THEN KReturn("None", NoRegion)
              ELSE KReturn("path", region)
    /\ UNCHANGED <<outputs, rect, kfn, monitor, opened>>
    /\ UNCHANGED notCrop

CropStep ==
    \/ DxgiWindowLocate
    \/ DxgiWindowCapture
    \/ DxgiWindowCrop
    \/ DriverLocate
    \/ DriverBitBlt
    \/ DriverCrop

(***************************************************************************)
(* Saving a capture: EnhancedScreenCapture._save_screenshot and the part   *)
(* of WindowsGraphicsCapture.capture_window from the file name on.         *)
(*                                                                         *)
(* A file is "absent", "empty" (created, nothing written), "partial" (the  *)
(* writer stopped before the end of the image) or "complete".  A save that *)
(* fails leaves the file in any of the first three states.                 *)
(***************************************************************************)
\* saving operations in one behaviour
MaxSaves == 2

\* the directory the capture objects were constructed with
screenshot_dir == "screenshots"

\* the method_name arguments of _save_screenshot
MethodNames ==
    {"gdi_fullscreen", "gdi_window", "accessibility_window",
     "direct_memory_window", "temp_affinity_window", "magnifier_window",
     "fullscreen"}

\* os.path.join(self.screenshot_dir, f"{name}_{timestamp}.png")
PathOf(name, timestamp) ==
    [dir |-> screenshot_dir, name |-> name, timestamp |-> timestamp,
     ext |-> ".png"]

NoPath == [dir |-> "", name |-> "", timestamp |-> 0, ext |-> ""]

\* the names the duplication capture gives its files: the image of output
\* 0 and the image of window h cropped from it
DxgiNames == {"dxgi_output_0", "dxgi_window_h"}

Paths ==
    { PathOf(n, t) : n \in MethodNames \cup {"wgc_capture"} \cup DxgiNames,
                     t \in 1..MaxSaves }

\* what a save that raised leaves at the path
FailedWrites == {"absent", "empty", "partial"}

\* os.path.exists and os.path.getsize
Exists(p) == disk[p] # "absent"
GetSize(p) == IF disk[p] \in {"absent", "empty"} THEN 0 ELSE 1

FReturn(value) ==
    /\ fret' = value
    /\ handed' = IF value = NoPath THEN handed ELSE handed \cup {value}
    /\ fpc' = "idle"

\* _save_screenshot and the "return self._save_screenshot(...)" of its
\* caller, whose except clause turns a raising save into None
SaveScreenshot ==
    /\ fpc = "idle"
    /\ clock <= MaxSaves
    /\ \E method_name \in MethodNames :
          LET path == PathOf(method_name, clock)
          IN  \/ /\ disk' = [disk EXCEPT ![path] = "complete"]
                 /\ FReturn(path)
              \/ /\ \E left \in FailedWrites :
                       disk' = [disk EXCEPT ![path] = left]
                 /\ FReturn(NoPath)
    /\ clock' = clock + 1
    /\ entryDisk' = disk
    /\ UNCHANGED <<file_path, native>>
    /\ UNCHANGED notFile

\* capture_window: the file name
WgcFileName ==
    /\ fpc = "idle"
    /\ clock <= MaxSaves
    /\ file_path' = PathOf("wgc_capture", clock)
    /\ clock' = clock + 1
    /\ fpc' = "native"
    /\ fret' = NoPath
    /\ entryDisk' = disk
    /\ UNCHANGED <<disk, native, handed>>
    /\ UNCHANGED notFile

\* GraphicsCaptureInterop.CaptureWindow(hwnd, file_path): null without a
\* frame; with a frame the PNG bytes, after a bitmap.Save(outputPath) whose
\* exception is caught and only printed
WgcNativeSave ==
    /\ fpc = "native"
    /\ \/ /\ native' = "null"
          /\ UNCHANGED disk
       \/ /\ native' = "bytes"
          /\ \E left \in FailedWrites \cup {"complete"} :
                disk' = [disk EXCEPT ![file_path] = left]
    /\ fpc' = "check"
    /\ UNCHANGED <<clock, file_path, fret, handed, entryDisk>>
    /\ UNCHANGED notFile

\* capture_window: "if result and os.path.exists(file_path) and
\* os.path.getsize(file_path) > 0" and its else branch
WgcFileCheck ==
    /\ fpc = "check"
    /\ IF native = "bytes" /\ Exists(file_path) /\ GetSize(file_path) > 0
       THEN FReturn(file_path) /\ UNCHANGED disk
       ELSE IF native = "bytes" /\ ~Exists(file_path)
       THEN \/ /\ disk' = [disk EXCEPT ![file_path] = "complete"]
               /\ FReturn(file_path)
            \/ /\ \E left \in FailedWrites :
                     disk' = [disk EXCEPT ![file_path] = left]
               /\ FReturn(NoPath)
       ELSE FReturn(NoPath) /\ UNCHANGED disk
    /\ UNCHANGED <<clock, file_path, native, entryDisk>>
    /\ UNCHANGED notFile

\* what DXGIOutputDuplication.capture_screenshot leaves at its file name
\* and returns: nothing acquired, a save that raised, the file and its
\* name, or the file and None when Unmap or ReleaseFrame raised after
\* img.save
OutputSaves ==
    {[left |-> "absent", path |-> FALSE], [left |-> "complete", path |-> TRUE],
     [left |-> "complete", path |-> FALSE]}
        \cup {[left |-> w, path |-> FALSE] : w \in FailedWrites}

\* DXGIOutputDuplicationCapture.capture_window up to Image.open: the
\* whole output is captured into a file of its own
DxgiOutputSave ==
    /\ fpc = "idle"
    /\ clock + 1 <= MaxSaves
    /\ entryDisk' = disk
    /\ LET screenshot_path == PathOf("dxgi_output_0", clock)
       IN  \E r \in OutputSaves :
              /\ disk' = [disk EXCEPT ![screenshot_path] = r.left]
              /\ IF r.path
                 THEN /\ file_path' = screenshot_path
                      /\ fpc' = "dxgi_crop"
                      /\ fret' = NoPath
                      /\ UNCHANGED handed
                 ELSE FReturn(NoPath) /\ UNCHANGED file_path
    /\ clock' = clock + 1
    /\ UNCHANGED native
    /\ UNCHANGED notFile

\* capture_window from Image.open on: crop, save under a second name and
\* return it; the except clause turns every exception into None
DxgiWindowSave ==
    /\ fpc = "dxgi_crop"
    /\ LET cropped_path == PathOf("dxgi_window_h", clock)
       IN  \/ /\ disk' = [disk EXCEPT ![cropped_path] = "complete"]
              /\ FReturn(cropped_path)
           \/ /\ \E left \in FailedWrites :
                    disk' = [disk EXCEPT ![cropped_path] = left]
              /\ FReturn(NoPath)
    /\ clock' = clock + 1
    /\ UNCHANGED <<file_path, native, entryDisk>>
    /\ UNCHANGED notFile

FileStep ==
    \/ SaveScreenshot
    \/ WgcFileName
    \/ WgcNativeSave
    \/ WgcFileCheck
    \/ DxgiOutputSave
    \/ DxgiWindowSave

(***************************************************************************)
(* AccessibilityController.handle_take_screenshot: the request handler the *)
(* pipe server calls with the "data" of a take_screenshot message.  The    *)
(* engine call is ScreenCaptureProxy.capture_screenshot, whose steps are   *)
(* the orchestrator actions above.                                         *)
(***************************************************************************)
\* message.get('data', {}) of a decoded request: any JSON value; a dict
\* without window_name, or with one
MessageData == {"not_dict", "no_window", "window_name"}

NoResponse == [status |-> "none", message |-> "", screenshot_path |-> ""]

\* the three return statements of the handler
Success(path) ==
    [status |-> "success", message |-> "Screenshot saved to", screenshot_path |-> path]
Failed ==
    [status |-> "error",
     message |-> "Failed to capture screenshot with any method",
     screenshot_path |-> ""]
Error(e) == [status |-> "error", message |-> e, screenshot_path |-> ""]

\* the handler up to the engine call: message_data.get raises on anything
\* but a dict, and the except clause answers with str(e)
HandleTakeScreenshot ==
    /\ built
    /\ hpc = "idle"
    /\ cpc \in {"idle", "done"}
    /\ requests < MaxRequests
    /\ requests' = requests + 1
    /\ \E d \in MessageData :
          /\ message_data' = d
          /\ IF d = "not_dict"
             THEN /\ response' = Error("str(e)")
                  /\ filename' = "not_called"
                  /\ UNCHANGED <<hpc, entry, window, hwnd, cpc, idx, attempts,
                                 outcomes, lastRaised, result>>
             ELSE /\ hpc' = "capturing"
                  /\ response' = NoResponse
                  /\ filename' = "not_called"
                  /\ entry' = "proxy"
                  /\ window' = IF d = "window_name" THEN "name" ELSE "None"
                  /\ hwnd' = "None"
                  /\ cpc' = "resolve"
                  /\ idx' = 1
                  /\ attempts' = <<>>
                  /\ outcomes' = <<>>
                  /\ lastRaised' = FALSE
                  /\ result' = [kind |-> "pending", backend |-> "", mean |-> 0]
    /\ UNCHANGED caps
    /\ UNCHANGED notIpc

\* the handler from the return of the engine call on
HandleRespond ==
    /\ hpc = "capturing"
    /\ cpc = "done"
    /\ filename' = CASE result.kind = "path" -> "path"
                     [] result.kind = "raised" -> "raised"
                     [] OTHER -> "None"
    /\ response' = CASE result.kind = "path" -> Success(result.backend)
                     [] result.kind = "raised" -> Error("str(e)")
                     [] OTHER -> Failed
    /\ hpc' = "idle"
    /\ UNCHANGED message_data
    /\ UNCHANGED chainVars
    /\ UNCHANGED notIpc

(***************************************************************************)
(* Construction of the capture systems: ScreenCaptureProxy.__init__ builds *)
(* an AdvancedScreenCapture, whose __init__ builds a                       *)
(* DXGIOutputDuplicationCapture, and then a DXGIOutputDuplicationCapture   *)
(* of its own.  Each of them runs _initialize_outputs, which creates one   *)
(* DXGIOutputDuplication per monitor and keeps those that initialized.     *)
(***************************************************************************)
\* most monitors the system reports
MaxMonitors == 3

\* the objects that build a DXGIOutputDuplicationCapture, in the order
\* ScreenCaptureProxy.__init__ gets to them
Owners == <<"advanced_capture", "proxy">>

\* ScreenCaptureProxy.__init__ up to the first _initialize_outputs
ProxyInit ==
    /\ opc = "idle"
    /\ \E n \in 1..MaxMonitors : num_monitors' = n
    /\ opc' = Owners[1]
    /\ oindex' = 0
    /\ UNCHANGED <<live, fullshot>>
    /\ UNCHANGED notOwn

\* one iteration of "for i in range(num_monitors)": a session that
\* initialized is appended to outputs, any other is dropped at once
InitializeOutput ==
    /\ opc \in {Owners[1], Owners[2]}
    /\ oindex < num_monitors
    /\ \E initialized \in BOOLEAN :
          live' = IF initialized
                  THEN live \cup {[owner |-> opc, output |-> oindex]}
                  ELSE live
    /\ oindex' = oindex + 1
    /\ UNCHANGED <<opc, num_monitors, fullshot>>
    /\ UNCHANGED notOwn

\* the end of _initialize_outputs and of the constructor that called it:
\* the capture object is kept if it has an output, else replaced by None
OutputsInitialized ==
    /\ opc \in {Owners[1], Owners[2]}
    /\ oindex = num_monitors
    /\ opc' = IF opc = Owners[1] THEN Owners[2] ELSE "done"
    /\ oindex' = 0
    /\ UNCHANGED <<live, num_monitors, fullshot>>
    /\ UNCHANGED notOwn

\* self.outputs of the capture object an owner built: its sessions in the
\* order of the loop, which is the order of their output_index
OutputsOf(owner) ==
    LET indexes == {s.output : s \in {x \in live : x.owner = owner}}
    IN  CHOOSE list \in [1..Cardinality(indexes) -> indexes] :
            \A i, j \in DOMAIN list : i < j => list[i] < list[j]

NoFullShot == [owner |-> "none", output |-> 0 - 1, ret |-> "pending"]

\* DXGIOutputDuplicationCapture.capture_full_screen on the capture object
\* of one owner: None without outputs, else whatever capture_screenshot
\* of self.outputs[0] returns
CaptureFullScreen ==
    /\ opc = "done"
    /\ \E owner \in {Owners[1], Owners[2]} :
          LET self_outputs == OutputsOf(owner)
          IN  IF self_outputs = <<>>
              THEN fullshot' = [owner |-> owner, output |-> 0 - 1,
                                ret |-> "None"]
              ELSE \E r \in {"path", "None"} :
                      fullshot' = [owner |-> owner,
                                   output |-> self_outputs[1], ret |-> r]
    /\ opc' = "captured"
    /\ UNCHANGED <<live, num_monitors, oindex>>
    /\ UNCHANGED notOwn

OwnStep ==
    \/ ProxyInit
    \/ InitializeOutput
    \/ OutputsInitialized
    \/ CaptureFullScreen

(***************************************************************************)
(* named_pipe_manager.SecurityManager: encrypt_message / decrypt_message   *)
(* and sign_message / verify_message.                                      *)
(*                                                                         *)
(* A message is the sequence of the tokens of a Python dictionary of JSON  *)
(* values; its JSON text has one character per token, and a byte is a      *)
(* number in 0..255.  The cipher block and the HMAC tag are scaled down to *)
(* BlockLen and SigLen bytes; the block cipher is a keyed permutation of   *)
(* the blocks and the HMAC a keyed digest that tells apart the texts of    *)
(* the model.  Padding, chaining, slicing and base64 are computed as the   *)
(* code and the libraries compute them.                                    *)
(***************************************************************************)
\* bytes of a cipher block (AES: 16) and of an HMAC tag (SHA-256: 32)
BlockLen == 2
SigLen == 2

\* the values a byte of the initialization vector is drawn from
IvBytes == {0, 1, 255}

\* the dictionaries given to encrypt_message and sign_message: {},
\* {'command': 'test'}, {'ok': True}, {'data': None}, {'data': []},
\* {'data': [1]}, {'data': [1, 2]}, {'data': (1, 2)}
Messages ==
    { <<"{", "}">>,
      <<"{", "'command'", ":", "'test'", "}">>,
      <<"{", "'ok'", ":", "True", "}">>,
      <<"{", "'data'", ":", "None", "}">>,
      <<"{", "'data'", ":", "[", "]", "}">>,
      <<"{", "'data'", ":", "[", "1", "]", "}">>,
      <<"{", "'data'", ":", "[", "1", ",", "2", "]", "}">>,
      <<"{", "'data'", ":", "(", "1", ",", "2", ")", "}">> }

\* the message holds only values JSON has: no tuple
JsonNative(m) == \A i \in 1..Len(m) : m[i] \notin {"(", ")"}

\* the characters of JSON texts; <x> stands for the quoted string x
JsonChars ==
    <<"{", "}", "[", "]", ":", ",", "true", "false", "null", "1", "2",
      "<command>", "<test>", "<ok>", "<data>", "<type>", "<take_screenshot>",
      "<ping>">>

\* json.dumps, token by token: a tuple is written as an array, True and
\* None as true and null, a string in double quotes
DumpToken(t) ==
    CASE t = "(" -> "["
      [] t = ")" -> "]"
      [] t = "True" -> "true"
      [] t = "False" -> "false"
      [] t = "None" -> "null"
      [] t = "'command'" -> "<command>"
      [] t = "'test'" -> "<test>"
      [] t = "'ok'" -> "<ok>"
      [] t = "'data'" -> "<data>"
      [] t = "'type'" -> "<type>"
      [] t = "'take_screenshot'" -> "<take_screenshot>"
      [] t = "'ping'" -> "<ping>"
      [] OTHER -> t

\* json.loads, token by token
LoadToken(c) ==
    CASE c = "true" -> "True"
      [] c = "false" -> "False"
      [] c = "null" -> "None"
      [] c = "<command>" -> "'command'"
      [] c = "<test>" -> "'test'"
      [] c = "<ok>" -> "'ok'"
      [] c = "<data>" -> "'data'"
      [] c = "<type>" -> "'type'"
      [] c = "<take_screenshot>" -> "'take_screenshot'"
      [] c = "<ping>" -> "'ping'"
      [] OTHER -> c

\* json.dumps(message) followed by .encode('utf-8'): one byte per character
Dumps(m) ==
    [i \in 1..Len(m) |->
        CHOOSE b \in 1..Len(JsonChars) : JsonChars[b] = DumpToken(m[i])]

\* .decode('utf-8') followed by json.loads
Loads(bytes) == [i \in 1..Len(bytes) |-> LoadToken(JsonChars[bytes[i]])]

RECURSIVE XorBits(_, _, _)
XorBits(a, b, n) ==
    IF n = 0 THEN 0
    ELSE (((a % 2) + (b % 2)) % 2) + 2 * XorBits(a \div 2, b \div 2, n - 1)

\* the exclusive or of two blocks
Xor(x, y) == [i \in 1..BlockLen |-> XorBits(x[i], y[i], 8)]

\* self.encryption_key and self.hmac_key
encryption_key == [i \in 1..BlockLen |-> (83 + 22 * i) % 256]
hmac_key == [i \in 1..SigLen |-> (72 + 5 * i) % 256]

\* the block cipher and its inverse under encryption_key
EncryptBlock(x) == [i \in 1..BlockLen |-> (5 * x[i] + encryption_key[i]) % 256]
DecryptBlock(y) ==
    [i \in 1..BlockLen |-> (205 * (y[i] + 256 - encryption_key[i])) % 256]

\* padding.PKCS7(128).padder(): n bytes of value n, n in 1..BlockLen
Pad(data) ==
    LET n == BlockLen - (Len(data) % BlockLen)
    IN  data \o [i \in 1..n |-> n]

\* padding.PKCS7(128).unpadder(); finalize raises on invalid padding
PaddingValid(data) ==
    /\ Len(data) > 0
    /\ Len(data) % BlockLen = 0
    /\ data[Len(data)] \in 1..BlockLen
    /\ \A i \in (Len(data) - data[Len(data)] + 1)..Len(data) :
          data[i] = data[Len(data)]
\* an unpadder that always removes one byte
UnpadOne(data) == SubSeq(data, 1, Len(data) - 1)
Unpad(data) == SubSeq(data, 1, Len(data) - data[Len(data)])

Block(data, k) == SubSeq(data, (k - 1) * BlockLen + 1, k * BlockLen)

\* modes.CBC(iv): each block is combined with the previous cipher block
RECURSIVE CbcEncrypt(_, _)
CbcEncrypt(data, previous) ==
    IF data = <<>> THEN <<>>
    ELSE LET c == EncryptBlock(Xor(Block(data, 1), previous))
         IN  c \o CbcEncrypt(SubSeq(data, BlockLen + 1, Len(data)), c)

RECURSIVE CbcDecrypt(_, _)
CbcDecrypt(data, previous) ==
    IF data = <<>> THEN <<>>
    ELSE LET c == Block(data, 1)
         IN  Xor(DecryptBlock(c), previous)
               \o CbcDecrypt(SubSeq(data, BlockLen + 1, Len(data)), c)

RECURSIVE Weighted(_, _, _)
Weighted(data, i, j) ==
    IF i > Len(data) THEN 0
    ELSE ((i + j) * (i + j) * data[i]) + Weighted(data, i + 1, j)

\* hmac.HMAC(self.hmac_key, hashes.SHA256()): the tag of data
Hmac(data) ==
    [j \in 1..SigLen |-> (hmac_key[j] + Len(data) + Weighted(data, 1, j)) % 256]

\* base64 characters: the 64 digits are 0..63, 64 is "=" and 65 any
\* character outside the alphabet (a newline, a blank)
PadChar == 64
OtherChar == 65

\* base64.b64encode
RECURSIVE B64Encode(_)
B64Encode(bytes) ==
    IF bytes = <<>> THEN <<>>
    ELSE IF Len(bytes) = 1
    THEN <<bytes[1] \div 4, (bytes[1] % 4) * 16, PadChar, PadChar>>
    ELSE IF Len(bytes) = 2
    THEN <<bytes[1] \div 4, ((bytes[1] % 4) * 16) + (bytes[2] \div 16),
           (bytes[2] % 16) * 4, PadChar>>
    ELSE <<bytes[1] \div 4, ((bytes[1] % 4) * 16) + (bytes[2] \div 16),
           ((bytes[2] % 16) * 4) + (bytes[3] \div 64), bytes[3] % 64>>
           \o B64Encode(SubSeq(bytes, 4, Len(bytes)))

\* the bytes of an incomplete group of 2 or 3 digits: excess bits dropped
Partial(quad) ==
    IF Len(quad) = 2 THEN <<(quad[1] * 4) + (quad[2] \div 16)>>
    ELSE <<(quad[1] * 4) + (quad[2] \div 16),
           ((quad[2] % 16) * 16) + (quad[3] \div 4)>>

\* binascii.a2b_base64 as base64.b64decode calls it (validate=False):
\* characters outside the alphabet are skipped, a complete padding ends the
\* input, and input that ends inside a group raises
RECURSIVE A2b(_, _, _, _, _)
A2b(chars, i, quad, pads, out) ==
    IF i > Len(chars)
    THEN [raises |-> quad # <<>>, bytes |-> out]
    ELSE LET c == chars[i] IN
         IF c = OtherChar THEN A2b(chars, i + 1, quad, pads, out)
         ELSE IF c = PadChar
         THEN IF Len(quad) >= 2 /\ Len(quad) + pads + 1 >= 4
              THEN [raises |-> FALSE, bytes |-> out \o Partial(quad)]
              ELSE A2b(chars, i + 1, quad,
                       IF Len(quad) >= 2 THEN pads + 1 ELSE pads, out)
         ELSE IF Len(quad) = 3
         THEN A2b(chars, i + 1, <<>>, 0,
                  out \o <<(quad[1] * 4) + (quad[2] \div 16),
                           ((quad[2] % 16) * 16) + (quad[3] \div 4),
                           ((quad[3] % 4) * 64) + c>>)
         ELSE A2b(chars, i + 1, Append(quad, c), 0, out)

B64Decode(chars) == A2b(chars, 1, <<>>, 0, <<>>)

\* full_message[:16], full_message[16:-32] and full_message[-32:]; a slice
\* of a short message is shorter, never an error
IvOf(full) == SubSeq(full, 1, Min(BlockLen, Len(full)))
SignatureOf(full) == SubSeq(full, Max(1, Len(full) - SigLen + 1), Len(full))
CipherOf(full) == SubSeq(full, BlockLen + 1, Len(full) - SigLen)

\* encrypt_and_sign of the bytes of the text, with the IV os.urandom drew
EncryptAndSign(data, iv) ==
    LET encrypted_data == CbcEncrypt(Pad(data), iv)
        signature == Hmac(iv \o encrypted_data)
    IN  B64Encode(iv \o encrypted_data \o signature)

NoBytes == [raises |-> TRUE, bytes |-> <<>>]

\* a decrypt_and_verify that does not look at the signature
VerifySkipped(full) == TRUE

\* decrypt_and_verify: h.update(iv + encrypted_data_bytes) and
\* h.verify(signature) accept the message
Verify(full) == Hmac(IvOf(full) \o CipherOf(full)) = SignatureOf(full)

\* decrypt_and_verify: the bytes of the text, or an exception (base64,
\* signature verification, block length, padding)
DecryptAndVerify(chars) ==
    LET decoded == B64Decode(chars)
        full == decoded.bytes
        iv == IvOf(full)
        encrypted_data == CipherOf(full)
    IN  IF decoded.raises THEN NoBytes
        ELSE IF ~Verify(full) THEN NoBytes
        ELSE IF Len(iv) # BlockLen \/ Len(encrypted_data) % BlockLen # 0
        THEN NoBytes
        ELSE LET padded_data == CbcDecrypt(encrypted_data, iv)
             IN  IF ~PaddingValid(padded_data) THEN NoBytes
                 ELSE [raises |-> FALSE, bytes |-> Unpad(padded_data)]

NoSigned == [message |-> <<>>, signature |-> <<>>]

XReturn(label) ==
    /\ xpc' = label

\* encrypt_message(message) with any IV
EncryptMessage ==
    /\ xpc = "idle"
    /\ \E m \in Messages, iv \in [1..BlockLen -> IvBytes] :
          /\ message' = m
          /\ encrypted' = EncryptAndSign(Dumps(m), iv)
    /\ XReturn("encrypted")
    /\ UNCHANGED <<decrypted, signed, tampering, verified>>
    /\ UNCHANGED notSec

\* decrypt_message(encrypted)
DecryptMessage ==
    /\ xpc = "encrypted"
    /\ LET data == DecryptAndVerify(encrypted)
       IN  decrypted' = IF data.raises THEN [raises |-> TRUE, message |-> <<>>]
                        ELSE [raises |-> FALSE, message |-> Loads(data.bytes)]
    /\ XReturn("decrypted")
    /\ UNCHANGED <<message, encrypted, signed, tampering, verified>>
    /\ UNCHANGED notSec

\* sign_message(message): the HMAC of the sorted JSON text, in base64
SignMessage ==
    /\ xpc = "idle"
    /\ \E m \in Messages :
          /\ message' = m
          /\ signed' = [message |-> m, signature |-> B64Encode(Hmac(Dumps(m)))]
    /\ tampering' = "none"
    /\ XReturn("signed")
    /\ UNCHANGED <<encrypted, decrypted, verified>>
    /\ UNCHANGED notSec

\* the signature strings that differ from s in one character, by one
\* inserted character from outside the alphabet, or by its missing end
ChangedSignatures(s) ==
    { [s EXCEPT ![i] = (s[i] + d) % 64] :
        i \in { k \in 1..Len(s) : s[k] < 64 }, d \in {1, 2, 4, 16, 32} }
      \cup { Append(s, OtherChar), SubSeq(s, 1, Len(s) - 1), <<>> }

\* somebody changes the signed message between signing and verification
Tamper ==
    /\ xpc = "signed"
    /\ \/ /\ \E sig \in ChangedSignatures(signed.signature) :
                signed' = [signed EXCEPT !.signature = sig]
          /\ tampering' = "signature"
       \/ /\ \E m \in Messages \ {signed.message} :
                signed' = [signed EXCEPT !.message = m]
          /\ tampering' = "message"
    /\ XReturn("tampered")
    /\ UNCHANGED <<message, encrypted, decrypted, verified>>
    /\ UNCHANGED notSec

\* verify_message(signed_message): True when h.verify accepts the decoded
\* signature; every exception inside it is turned into False
VerifyMessage ==
    /\ xpc \in {"signed", "tampered"}
    /\ LET signature == B64Decode(signed.signature)
       IN  verified' = IF signature.raises THEN "False"
                       ELSE IF Hmac(Dumps(signed.message)) = signature.bytes
                       THEN "True" ELSE "False"
    /\ XReturn("verified")
    /\ UNCHANGED <<message, encrypted, decrypted, signed, tampering>>
    /\ UNCHANGED notSec

SecStep ==
    \/ EncryptMessage
    \/ DecryptMessage
    \/ SignMessage
    \/ Tamper
    \/ VerifyMessage

(***************************************************************************)
(* The GDI backends of EnhancedScreenCapture given a window handle:        *)
(* capture_using_gdi, capture_using_direct_memory and                      *)
(* capture_using_bitblt_with_temporary_affinity.  Each obtains the window  *)
(* DC, wraps it, creates a memory DC and a bitmap, captures, converts,     *)
(* releases the four objects and saves.                                    *)
(***************************************************************************)
\* calls of a GDI backend in one behaviour
MaxGdiCalls == 3

GdiBackends ==
    {"capture_using_gdi", "capture_using_direct_memory",
     "capture_using_bitblt_with_temporary_affinity"}

\* the objects in the order the methods obtain them: GetWindowDC,
\* CreateDCFromHandle, CreateCompatibleDC, CreateBitmap
GdiObjects == <<"window_dc", "memory_dc", "compatible_dc", "bitmap">>

\* the order of the clean-up statements: DeleteObject(bitmap),
\* compatible_dc.DeleteDC(), memory_dc.DeleteDC(), ReleaseDC(window_dc)
GdiCleanupOrder == <<"bitmap", "compatible_dc", "memory_dc", "window_dc">>

GdiObjectSet == {GdiObjects[i] : i \in 1..Len(GdiObjects)}

\* the first k objects of an order
FirstOf(order, k) == {order[i] : i \in 1..k}

BReturn(value) ==
    /\ bret' = value
    /\ bpc' = "done"

\* the statements before the first GDI object: the dimension check of
\* capture_using_gdi, GetWindowDisplayAffinity of the temporary-affinity
\* method; either may return None, and any call may raise
GdiBegin ==
    /\ bpc \in {"idle", "done"}
    /\ bcalls < MaxGdiCalls
    /\ bcalls' = bcalls + 1
    /\ \E fn \in GdiBackends : bfn' = fn
    /\ made' = {}
    /\ freed' = [o \in GdiObjectSet |-> 0]
    /\ \/ bpc' = "create" /\ bret' = "pending"
       \/ BReturn("None")
    /\ UNCHANGED notGdi

\* GetWindowDC ... SelectObject: the first k objects exist when the next
\* statement raises into the except clause, which returns None
GdiCreate ==
    /\ bpc = "create"
    /\ \E k \in 0..Len(GdiObjects) :
          /\ made' = FirstOf(GdiObjects, k)
          /\ IF k = Len(GdiObjects)
             THEN bpc' = "capture" /\ UNCHANGED bret
             ELSE BReturn("None")
    /\ UNCHANGED <<bfn, freed, bcalls>>
    /\ UNCHANGED notGdi

\* what the capture statement of a method can do: go on to the conversion,
\* take the early return of "if not result:", or raise
CaptureResults(fn) ==
    IF fn = "capture_using_direct_memory"
    THEN {"ok", "early_return", "raise"}       \* PrintWindow
    ELSE {"ok", "raise"}     \* BitBlt; BitBlt then PrintWindow in its except

GdiCapture ==
    /\ bpc = "capture"
    /\ \E r \in CaptureResults(bfn) :
          CASE r = "ok" -> bpc' = "convert" /\ UNCHANGED bret
            [] r = "early_return" -> bpc' = "early_cleanup" /\ UNCHANGED bret
            [] OTHER -> BReturn("None")
    /\ UNCHANGED <<bfn, made, freed, bcalls>>
    /\ UNCHANGED notGdi

\* GetInfo, GetBitmapBits, Image.frombuffer
GdiConvert ==
    /\ bpc = "convert"
    /\ \/ bpc' = "cleanup" /\ UNCHANGED bret
       \/ BReturn("None")
    /\ UNCHANGED <<bfn, made, freed, bcalls>>
    /\ UNCHANGED notGdi

\* the release / delete calls made when the first k clean-up statements
\* are executed
CleanedUp(f, k) ==
    [o \in GdiObjectSet |->
        IF o \in FirstOf(GdiCleanupOrder, k) THEN f[o] + 1 ELSE f[o]]

\* the four clean-up statements, after the conversion or in the early
\* return; statement k raising skips the statements after it
GdiCleanup ==
    /\ bpc \in {"cleanup", "early_cleanup"}
    /\ \E k \in 1..Len(GdiCleanupOrder), raises \in BOOLEAN :
          /\ raises \/ k = Len(GdiCleanupOrder)
          /\ freed' = CleanedUp(freed, k)
          /\ IF raises \/ bpc = "early_cleanup"
             THEN BReturn("None")
             ELSE bpc' = "save" /\ UNCHANGED bret
    /\ UNCHANGED <<bfn, made, bcalls>>
    /\ UNCHANGED notGdi

\* "return self._save_screenshot(...)"; a raising save returns None
GdiSave ==
    /\ bpc = "save"
    /\ \E ok \in BOOLEAN : BReturn(IF ok THEN "path" ELSE "None")
    /\ UNCHANGED <<bfn, made, freed, bcalls>>
    /\ UNCHANGED notGdi

GdiStep ==
    \/ GdiBegin
    \/ GdiCreate
    \/ GdiCapture
    \/ GdiConvert
    \/ GdiCleanup
    \/ GdiSave

(***************************************************************************)
(* NamedPipeServer: start, stop, _server_loop and _handle_client.  The     *)
(* accept loop, each client thread and the caller of stop() are threads of *)
(* their own; a step is what one thread does between two points at which   *)
(* another thread can observe or change the shared fields.                 *)
(***************************************************************************)
\* messages read in one behaviour
MaxReads == 2

\* the pipe instances the accept loop can create, each with the client
\* thread that serves it
Instances == {1, 2}

\* the message types with a registered handler (one of those
\* AccessibilityController registers)
message_handlers == {"'take_screenshot'"}

\* the requests clients send: one of a registered type, one of no
\* registered type
RequestMessages ==
    { <<"{", "'type'", ":", "'take_screenshot'", "}">>,
      <<"{", "'type'", ":", "'ping'", "}">> }

\* message.get('type')
TypeOf(m) == IF Len(m) >= 4 /\ m[2] = "'type'" THEN m[4] ELSE "None"

\* what a client that has the keys writes to the pipe
GoodWires ==
    {EncryptAndSign(Dumps(m), [i \in 1..BlockLen |-> IF i = 1 THEN 1 ELSE 255]) :
        m \in RequestMessages}

\* a message with the byte at position i of iv + ciphertext + signature
\* changed
Corrupt(chars, i) ==
    LET full == B64Decode(chars).bytes
    IN  B64Encode([full EXCEPT ![i] = (full[i] + 1) % 256])

\* what somebody without the keys can make of a message: a changed
\* initialization vector, ciphertext or signature, or a cut message
BadWires ==
    UNION {{Corrupt(w, 1), Corrupt(w, BlockLen + 1),
            Corrupt(w, Len(B64Decode(w).bytes)),
            SubSeq(w, 1, Len(w) - 1)} : w \in GoodWires}

Wires == GoodWires \cup BadWires

\* what _handle_client does with the data of one ReadFile: how far the
\* message gets
Processed(chars) ==
    LET decoded == B64Decode(chars)
        verifies == ~decoded.raises /\ Verify(decoded.bytes)
        data == DecryptAndVerify(chars)
        json_ok == verifies /\ ~data.raises
    IN  [decrypted |-> verifies,
         dispatched |-> json_ok /\ TypeOf(Loads(data.bytes)) \in message_handlers,
         responded |-> json_ok]

NoMessage == [instance |-> 0, data |-> <<>>]

\* start(): running = True and the thread of _server_loop
Start ==
    /\ lpc = "off"
    /\ ~running
    /\ stp = "idle"
    /\ running' = TRUE
    /\ lpc' = "top"
    /\ UNCHANGED <<pipe_handle, stp, cl, instances, closes, reads, last,
                   decrypts, dispatches, responses>>
    /\ UNCHANGED notPipe

\* _server_loop: "while self.running:" and CreateNamedPipe
ServerCreate ==
    /\ lpc = "top"
    /\ IF ~running
       THEN lpc' = "ended" /\ UNCHANGED <<pipe_handle, instances>>
       ELSE /\ instances + 1 \in Instances
            /\ instances' = instances + 1
            /\ pipe_handle' = instances + 1
            /\ lpc' = "connect"
    /\ UNCHANGED <<running, stp, cl, closes, reads, last, decrypts, dispatches,
                   responses>>
    /\ UNCHANGED notPipe

\* ConnectNamedPipe(self.pipe_handle): a client connects to the open
\* instance, or the call fails because the handle is closed or None; the
\* except clause leaves the loop when running is false and else closes the
\* handle and retries
ServerConnect ==
    /\ lpc = "connect"
    /\ IF pipe_handle = 0
       THEN lpc' = "ended" /\ UNCHANGED <<pipe_handle, closes>>
       ELSE IF closes[pipe_handle] = 0
       THEN lpc' = "connected" /\ UNCHANGED <<pipe_handle, closes>>
       ELSE IF ~running
       THEN lpc' = "ended" /\ UNCHANGED <<pipe_handle, closes>>
       ELSE /\ closes' = [closes EXCEPT ![pipe_handle] = @ + 1]
            /\ pipe_handle' = 0
            /\ lpc' = "top"
    /\ UNCHANGED <<running, stp, cl, instances, reads, last, decrypts,
                   dispatches, responses>>
    /\ UNCHANGED notPipe

\* the client thread is created with args=(self.pipe_handle, client_id)
\* and started; a thread given None ends at its first ReadFile
ServerSpawn ==
    /\ lpc = "connected"
    /\ cl' = IF pipe_handle = 0 THEN cl
             ELSE [cl EXCEPT ![pipe_handle] = "top"]
    /\ lpc' = "spawned"
    /\ UNCHANGED <<running, pipe_handle, stp, instances, closes, reads, last,
                   decrypts, dispatches, responses>>
    /\ UNCHANGED notPipe

\* "self.pipe_handle = None" after the thread was started
ServerForget ==
    /\ lpc = "spawned"
    /\ pipe_handle' = 0
    /\ lpc' = "top"
    /\ UNCHANGED <<running, stp, cl, instances, closes, reads, last, decrypts,
                   dispatches, responses>>
    /\ UNCHANGED notPipe

\* _handle_client: "while self.running:", then the thread blocks in
\* ReadFile
ClientLoop(h) ==
    /\ cl[h] = "top"
    /\ cl' = [cl EXCEPT ![h] = IF running THEN "read" ELSE "finally"]
    /\ UNCHANGED <<running, pipe_handle, lpc, stp, instances, closes, reads,
                   last, decrypts, dispatches, responses>>
    /\ UNCHANGED notPipe

\* ReadFile returns a message and the thread processes it: decrypt and
\* verify, json.loads, the handler of its type, the response; every
\* exception of the processing is logged and the loop goes on
ClientMessage(h) ==
    /\ cl[h] = "read"
    /\ closes[h] = 0
    /\ reads < MaxReads
    /\ reads' = reads + 1
    /\ \E data \in Wires :
          LET done == Processed(data) IN
          /\ last' = [instance |-> h, data |-> data]
          /\ decrypts' = decrypts + (IF done.decrypted THEN 1 ELSE 0)
          /\ dispatches' = dispatches + (IF done.dispatched THEN 1 ELSE 0)
          /\ responses' = responses + (IF done.responded THEN 1 ELSE 0)
    /\ cl' = [cl EXCEPT ![h] = "top"]
    /\ UNCHANGED <<running, pipe_handle, lpc, stp, instances, closes>>
    /\ UNCHANGED notPipe

\* ReadFile fails (the client went away, or the handle was closed) or
\* returns a nonzero result: the loop is left
ClientDisconnect(h) ==
    /\ cl[h] = "read"
    /\ cl' = [cl EXCEPT ![h] = "finally"]
    /\ UNCHANGED <<running, pipe_handle, lpc, stp, instances, closes, reads,
                   last, decrypts, dispatches, responses>>
    /\ UNCHANGED notPipe

\* finally: CloseHandle(pipe_handle)
ClientClose(h) ==
    /\ cl[h] = "finally"
    /\ closes' = [closes EXCEPT ![h] = @ + 1]
    /\ cl' = [cl EXCEPT ![h] = "ended"]
    /\ UNCHANGED <<running, pipe_handle, lpc, stp, instances, reads, last,
                   decrypts, dispatches, responses>>
    /\ UNCHANGED notPipe

\* stop(): "self.running = False"
StopFlag ==
    /\ stp = "idle"
    /\ running
    /\ running' = FALSE
    /\ stp' = "close"
    /\ UNCHANGED <<pipe_handle, lpc, cl, instances, closes, reads, last,
                   decrypts, dispatches, responses>>
    /\ UNCHANGED notPipe

\* stop(): "if self.pipe_handle: CloseHandle(self.pipe_handle);
\* self.pipe_handle = None"
StopClose ==
    /\ stp = "close"
    /\ IF pipe_handle # 0
       THEN /\ closes' = [closes EXCEPT ![pipe_handle] = @ + 1]
            /\ pipe_handle' = 0
       ELSE UNCHANGED <<closes, pipe_handle>>
    /\ stp' = "join"
    /\ UNCHANGED <<running, lpc, cl, instances, reads, last, decrypts,
                   dispatches, responses>>
    /\ UNCHANGED notPipe

\* stop(): server_thread.join(timeout=2.0) returns, the thread ended or not
StopReturn ==
    /\ stp = "join"
    /\ stp' = "returned"
    /\ UNCHANGED <<running, pipe_handle, lpc, cl, instances, closes, reads,
                   last, decrypts, dispatches, responses>>
    /\ UNCHANGED notPipe

ClientStep ==
    \E h \in Instances :
        \/ ClientLoop(h)
        \/ ClientMessage(h)
        \/ ClientDisconnect(h)
        \/ ClientClose(h)

PipeStep ==
    \/ Start
    \/ ServerCreate
    \/ ServerConnect
    \/ ServerSpawn
    \/ ServerForget
    \/ ClientStep
    \/ StopFlag
    \/ StopClose
    \/ StopReturn

(***************************************************************************)
(* Specifications.                                                         *)
(***************************************************************************)
SessionInit ==
    /\ session = NewSession
    /\ built = FALSE
    /\ dxgi_duplication = FALSE
    /\ frameHeld = FALSE
    /\ acquires = 0
    /\ releaseFrames = 0
    /\ releases = 0
    /\ released = <<>>
    /\ shutdown = FALSE
    /\ initFail = "none"
    /\ inits = 0
    /\ pc = [t \in Threads |-> "idle"]
    /\ pending = [t \in Threads |-> "none"]
    /\ history = <<>>
    /\ calls = 0
    /\ cleanups = 0

CapSets ==
    [proxy_wgc : BOOLEAN, proxy_dxgi : BOOLEAN, adv_wgc : BOOLEAN,
     d3d_available : BOOLEAN]

ChainIdle ==
    /\ entry = "proxy"
    /\ window = "None"
    /\ hwnd = "None"
    /\ cpc = "idle"
    /\ idx = 1
    /\ attempts = <<>>
    /\ outcomes = <<>>
    /\ lastRaised = FALSE
    /\ result = [kind |-> "pending", backend |-> "", mean |-> 0]
    /\ requests = 0

\* no GDI backend call has been made on the window
WinIdle ==
    /\ entryWin = win
    /\ wfn = "none"
    /\ wpc = "idle"
    /\ locals = NoLocals
    /\ wret = "pending"
    /\ wcalls = 0

\* no composition capture has been requested
WgcIdle ==
    /\ target = [hwnd |-> "None", window_name |-> "None", supported |-> TRUE]
    /\ gpc = "idle"
    /\ created = {}
    /\ disposed = {}
    /\ disposedFrames = {}
    /\ attached = FALSE
    /\ pool = <<>>
    /\ arrived = 0
    /\ taken = <<>>
    /\ frame = 0
    /\ gotFrame = FALSE
    /\ semaphore = 0
    /\ converted = 0
    /\ gret = "pending"
    /\ captures = 0

\* no texture has been mapped
ImgIdle ==
    /\ mapped = NoBuffer
    /\ image = NoImage2D
    /\ ipc = "idle"

\* no window capture by cropping has been made
CropIdle ==
    /\ kfn = "none"
    /\ kpc = "idle"
    /\ monitor = 0
    /\ opened = NoFrame
    /\ box = NoBox
    /\ saved = NoRegion
    /\ kret = "pending"

\* a window in the middle of the primary monitor, every output initialized
PlainDesktop ==
    /\ outputs = <<0, 1>>
    /\ rect = [left |-> 1, top |-> 1, right |-> 2, bottom |-> 2]

\* an empty screenshot directory and no saving operation
FileIdle ==
    /\ disk = [p \in Paths |-> "absent"]
    /\ clock = 1
    /\ fpc = "idle"
    /\ file_path = NoPath
    /\ native = "null"
    /\ fret = NoPath
    /\ handed = {}
    /\ entryDisk = [p \in Paths |-> "absent"]

\* no request has been handled
IpcIdle ==
    /\ message_data = "none"
    /\ hpc = "idle"
    /\ filename = "not_called"
    /\ response = NoResponse

\* no capture system has been constructed
OwnIdle ==
    /\ live = {}
    /\ opc = "idle"
    /\ num_monitors = 0
    /\ oindex = 0
    /\ fullshot = NoFullShot

\* the security manager has not been used
SecIdle ==
    /\ xpc = "idle"
    /\ message = <<>>
    /\ encrypted = <<>>
    /\ decrypted = [raises |-> FALSE, message |-> <<>>]
    /\ signed = NoSigned
    /\ tampering = "none"
    /\ verified = "pending"

\* no GDI backend has been called
GdiIdle ==
    /\ bfn = "none"
    /\ bpc = "idle"
    /\ made = {}
    /\ freed = [o \in GdiObjectSet |-> 0]
    /\ bret = "pending"
    /\ bcalls = 0

\* the pipe server as its constructor leaves it
PipeIdle ==
    /\ running = FALSE
    /\ pipe_handle = 0
    /\ lpc = "off"
    /\ stp = "idle"
    /\ cl = [h \in Instances |-> "none"]
    /\ instances = 0
    /\ closes = [h \in Instances |-> 0]
    /\ reads = 0
    /\ last = NoMessage
    /\ decrypts = 0
    /\ dispatches = 0
    /\ responses = 0

\* the data components before any of their operations
DataIdle ==
    /\ ImgIdle /\ CropIdle /\ FileIdle /\ IpcIdle /\ OwnIdle /\ SecIdle
    /\ GdiIdle /\ PipeIdle

\* a window nobody looks at
PlainWindow ==
    [affinity |-> WDA_NONE, owned |-> FALSE, style |-> {},
     placement |-> "restored", foreground |-> "none"]

Init ==
    /\ SessionInit
    /\ ChainIdle
    /\ win = PlainWindow
    /\ WinIdle
    /\ WgcIdle
    /\ DataIdle
    /\ PlainDesktop
    /\ caps = [proxy_wgc |-> TRUE, proxy_dxgi |-> TRUE, adv_wgc |-> TRUE,
               d3d_available |-> TRUE]

\* one caller at a time drives the duplication session
Next ==
    \/ Construct
    \/ \E t \in Caller : CaptureStep(t)
    \/ Teardown
    \/ Shutdown

Spec == Init /\ [][Next]_vars

\* requests served on separate threads (pipe clients, hotkey), as
\* NamedPipeServer._server_loop starts them, with no lock around the session
NextConc ==
    \/ Construct
    \/ \E t \in Threads : CaptureStep(t)
    \/ Teardown
    \/ Shutdown

SpecConc == Init /\ [][NextConc]_vars

\* the ways construction ends that the orchestrators can tell apart
ConstructedWith == {"none", "DuplMax", "CreateDevice"}

\* the orchestrators, after the constructors ran with any outcome
InitChain ==
    /\ \E f \in ConstructedWith :
          /\ session = InitializeDxgi(NewSession, f, {})
          /\ initFail = f
    /\ built = TRUE
    /\ inits = 1
    /\ dxgi_duplication = EngineKeeps(session)
    /\ frameHeld = FALSE
    /\ acquires = 0
    /\ releaseFrames = 0
    /\ releases = 0
    /\ released = <<>>
    /\ shutdown = FALSE
    /\ pc = [t \in Threads |-> "idle"]
    /\ pending = [t \in Threads |-> "none"]
    /\ history = <<>>
    /\ calls = 0
    /\ cleanups = 0
    /\ ChainIdle
    /\ caps \in CapSets
    /\ win = PlainWindow
    /\ WinIdle
    /\ WgcIdle
    /\ DataIdle
    /\ PlainDesktop

NextChain == ChainStep

SpecChain == InitChain /\ [][NextChain]_vars

\* the GDI backends called on any window
InitWindow ==
    /\ SessionInit
    /\ ChainIdle
    /\ caps = [proxy_wgc |-> TRUE, proxy_dxgi |-> TRUE, adv_wgc |-> TRUE,
               d3d_available |-> TRUE]
    /\ win \in Windows
    /\ WinIdle
    /\ WgcIdle
    /\ DataIdle
    /\ PlainDesktop

NextWindow == WindowStep

SpecWindow == InitWindow /\ [][NextWindow]_vars

\* composition captures of any window handle
NextWgc == WgcStep

SpecWgc == Init /\ [][NextWgc]_vars

\* conversions of any mapped buffer
NextImage == MapTexture \/ DxgiConvert \/ SurfaceToBitmap

SpecImage == Init /\ [][NextImage]_vars

\* window captures by cropping, of any window on any set of outputs
InitCrop ==
    /\ SessionInit
    /\ ChainIdle
    /\ caps = [proxy_wgc |-> TRUE, proxy_dxgi |-> TRUE, adv_wgc |-> TRUE,
               d3d_available |-> TRUE]
    /\ win = PlainWindow
    /\ WinIdle
    /\ WgcIdle
    /\ DataIdle
    /\ outputs \in OutputLists
    /\ rect \in WindowRects

NextCrop == CropStep

SpecCrop == InitCrop /\ [][NextCrop]_vars

\* captures saved into the screenshot directory
NextFile == FileStep

SpecFile == Init /\ [][NextFile]_vars

\* take_screenshot requests served one at a time, after the constructors
\* ran with any outcome
NextIpc ==
    \/ HandleTakeScreenshot
    \/ ProxyResolve
    \/ ProxyWGC
    \/ ProxyDXGI
    \/ AdvancedStep
    \/ EnhancedStep
    \/ EnhancedFallback
    \/ HandleRespond

SpecIpc == InitChain /\ [][NextIpc]_vars

\* the construction of the capture systems on any number of monitors
NextOwn == OwnStep

SpecOwn == Init /\ [][NextOwn]_vars

\* one use of the security manager on any message
NextSec == SecStep

SpecSec == Init /\ [][NextSec]_vars

\* calls of the GDI backends on a window
NextGdi == GdiStep

SpecGdi == Init /\ [][NextGdi]_vars

\* the pipe server with its threads interleaved
NextPipe == PipeStep

SpecPipe == Init /\ [][NextPipe]_vars

(***************************************************************************)
(* Properties of the duplication session.                                  *)
(***************************************************************************)
\* the caller is outside capture_screenshot, or just about to acquire
AtAcquireOrIdle == \A t \in Caller : pc[t] \in {"idle", "acquire"}

\* C1: every successful AcquireNextFrame is followed by exactly one
\* ReleaseFrame call before capture_screenshot returns, on every exit path:
\* whenever the caller is outside the call or about to acquire again, the
\* number of successful acquires equals the number of ReleaseFrame calls.
C1_AcquireReleasePaired == AtAcquireOrIdle => acquires = releaseFrames

\* the positions of capture_screenshot at which the thread holds the frame
\* it acquired
HoldingFrame == {"copy", "convert", "unmap", "release"}

\* C2: operations on one session never overlap: no thread is at the
\* AcquireNextFrame call of capture_screenshot while another thread is
\* between its own successful acquire and its release.
C2_SessionSerialized ==
    \A t1, t2 \in Threads :
        t1 # t2 => ~(pc[t1] \in HoldingFrame /\ pc[t2] = "acquire")

\* some call has timed out
TimedOut == \E i \in DOMAIN history : history[i] = "timeout"

\* C7: a timed-out AcquireNextFrame leaves the session initialized with
\* every resource in place and makes no Release call, however often it
\* happens, and the session is never initialized a second time: as long as
\* nobody has called _cleanup from outside, a session that has seen a
\* timeout is initialized, holds device, context, duplication and staging
\* texture, has had no Release call and exactly one _initialize_dxgi run.
C7_TimeoutKeepsSession ==
    (TimedOut /\ cleanups = 0) =>
        /\ session.initialized
        /\ session.device
        /\ session.device_context
        /\ session.dxgi_output_duplication
        /\ session.staging_texture
        /\ releases = 0
        /\ inits = 1

\* two timeouts in a row, then a capture that acquired a frame and
\* returned a path, on the session initialized once
C7_Witness ==
    /\ history = <<"timeout", "timeout", "path">>
    /\ inits = 1
    /\ acquires = 1
    /\ session.initialized

\* C8: after an AcquireNextFrame that failed with a driver error other
\* than timeout (access lost, device removed) capture_screenshot leaves the
\* session torn down: initialized is false and no resource is held.
C8_DriverErrorTearsDown ==
    (AtAcquireOrIdle /\ Len(history) > 0
        /\ history[Len(history)] = "driver_error") =>
            /\ ~session.initialized
            /\ ~session.dxgi_output_duplication
            /\ ~session.staging_texture

\* the session holds none of the driver objects
HoldsNothing(s) ==
    /\ ~s.device
    /\ ~s.device_context
    /\ ~s.dxgi_output_duplication
    /\ ~s.staging_texture

\* C9: when session initialization fails -- here in the case the claim
\* names, DuplicateOutput reporting the maximum duplicator count -- the
\* constructed session is not initialized, holds no device, device context,
\* duplication object or staging texture, and the engine has dropped the
\* backend.
C9_FailedInitHoldsNothing ==
    (built /\ initFail = "DuplMax" /\ cleanups = 0) =>
        /\ ~session.initialized
        /\ HoldsNothing(session)
        /\ ~dxgi_duplication

\* C10: acquired_frame is true exactly when the driver holds an unreleased
\* frame of the session, and it is false whenever no call is in progress.
C10_FlagMatchesDriver ==
    /\ Truthy(session.acquired_frame) <=> frameHeld
    /\ (\A t \in Caller : pc[t] = "idle") => ~Truthy(session.acquired_frame)

Reverse(seq) == [i \in 1..Len(seq) |-> seq[Len(seq) + 1 - i]]

\* the field holds an object when _cleanup is entered
PresentBefore(r) == session[r]

\* the field held an object when the failing step of _initialize_dxgi raised
PresentAtFailure(r) == AtFailure(NewSession, initFail)[r]

\* a _cleanup call on the session has just been made from outside
CleanupCalled == cleanups' = cleanups + 1

\* C11: _cleanup calls Release on exactly the resources that are present,
\* in the order staging texture, duplication object, output, device
\* context, device -- the reverse of the order of acquisition -- and leaves
\* initialized = false; this holds for the _cleanup of a failed
\* initialization and for every later _cleanup call.
C11_TeardownReverseOrder ==
    /\ [](built /\ cleanups = 0 /\ InitCleansUp(initFail) =>
            /\ released = SelectSeq(Reverse(AcquisitionOrder), PresentAtFailure)
            /\ ~session.initialized)
    /\ [][CleanupCalled =>
            /\ released' = SelectSeq(Reverse(AcquisitionOrder), PresentBefore)
            /\ ~session'.initialized]_vars

\* a session whose initialization stopped at DuplicateOutput with device and
\* context in place, torn down: two Release calls, context before device
C11_Witness ==
    /\ initFail = "DuplMax"
    /\ cleanups = 1
    /\ released = <<"device_context", "device">>
    /\ HoldsNothing(session)
    /\ ~session.initialized

\* C12: after one _cleanup call (the one of a failed initialization
\* included), also one in which a Release call raised, a further _cleanup
\* call makes no Release and no ReleaseFrame call and leaves the session
\* unchanged, with every resource field empty and initialized = false.
C12_TeardownIdempotent ==
    [][((cleanups >= 1 \/ (built /\ InitCleansUp(initFail))) /\ CleanupCalled) =>
            /\ releases' = releases
            /\ releaseFrames' = releaseFrames
            /\ session' = session
            /\ HoldsNothing(session')
            /\ ~session'.initialized]_vars

\* C13: when the engine's shutdown has returned, no frame of the session is
\* held by the driver and the session holds no device, device context,
\* duplication object or staging texture, whether it initialized, stopped
\* part-way or saw capture errors.
C13_ShutdownReleasesAll ==
    shutdown => (~frameHeld /\ HoldsNothing(session))

(***************************************************************************)
(* Properties of the window-changing GDI backends.                         *)
(***************************************************************************)
\* C14: when capture_using_bitblt_with_temporary_affinity has returned, on
\* any path, the window's display affinity equals the value it had when the
\* call began.
C14_AffinityRestored ==
    (wfn = "temp_affinity" /\ wpc = "done") =>
        win.affinity = entryWin.affinity

\* a protected window of the calling process: the flag was cleared, the
\* capture raised, and the call returned None with the flag back in place
C14_Witness ==
    /\ wfn = "temp_affinity"
    /\ wpc = "done"
    /\ wret = "None"
    /\ locals.raised
    /\ locals.current_affinity = WDA_EXCLUDEFROMCAPTURE
    /\ win.owned
    /\ win.affinity = WDA_EXCLUDEFROMCAPTURE

\* C15: when capture_using_gdi_window_redir has returned, on any path, the
\* window's style and placement equal their values at entry and the
\* foreground window is the one that was foreground at entry.
C15_WindowStateRestored ==
    (wfn = "gdi_redir" /\ wpc = "done") =>
        /\ win.style = entryWin.style
        /\ win.placement = entryWin.placement
        /\ win.foreground = entryWin.foreground

(***************************************************************************)
(* Properties of the composition capture.                                  *)
(***************************************************************************)
\* C16: when a composition capture that started its capture session has
\* returned -- with the image, after a timeout of the wait, or after an
\* exception of the conversion -- the session and the frame pool are
\* disposed and so is every frame it took from the pool.
C16_CaptureDisposesAll ==
    (gpc = "done" /\ "session" \in created) =>
        /\ {"session", "framePool"} \subseteq disposed
        /\ \A i \in DOMAIN taken : taken[i] \in disposedFrames

\* CaptureWindow returned the image bytes
CaptureSucceeded == gpc = "done" /\ converted # 0 /\ "session" \in disposed

\* C17: a successful composition capture has taken exactly one frame from
\* the pool, converted that frame and disposed it, whatever the
\* interleaving of frame-arrived notifications with the waiting thread.
C17_ExactlyOneFrame ==
    CaptureSucceeded =>
        /\ Len(taken) = 1
        /\ converted = taken[1]
        /\ disposedFrames = {taken[1]}

\* the request's handle, once resolved, is missing, zero or destroyed
InvalidTarget ==
    gpc # "idle" /\ target.supported
        /\ ResolveHandle(target.hwnd, target.window_name)
              \in {"None", "zero", "destroyed"}

\* C18: a composition capture requested for a missing, zero or destroyed
\* window handle creates no capture item, frame pool or capture session
\* and returns the failure value.
C18_InvalidHandleCreatesNothing ==
    InvalidTarget =>
        /\ created = {}
        /\ gpc = "done" => gret = "None"

\* the handle of a destroyed window got as far as CaptureWindow's window
\* test and the capture returned None
C18_Witness ==
    /\ gpc = "done"
    /\ target.supported
    /\ target.hwnd = "destroyed"
    /\ gret = "None"
    /\ created = {}

(***************************************************************************)
(* Properties of the orchestrators.                                        *)
(***************************************************************************)
\* the backends of the three orchestrators in the order of the source text
WrittenOrder ==
    <<"proxy_wgc", "proxy_dxgi",
      "adv_wgc", "adv_dxgi", "adv_direct3d", "adv_display_driver",
      "adv_gdi_redir",
      "enh_gdi", "enh_accessibility", "enh_direct_memory",
      "enh_temp_affinity", "enh_magnification", "enh_fullscreen">>

AdvancedNames ==
    {"adv_wgc", "adv_dxgi", "adv_direct3d", "adv_display_driver",
     "adv_gdi_redir"}

EnhancedNames ==
    {"enh_gdi", "enh_accessibility", "enh_direct_memory",
     "enh_temp_affinity", "enh_magnification"}

\* whether backend m belongs to the chain of the current request
InChain(m) ==
    CASE m = "proxy_wgc" -> entry = "proxy" /\ caps.proxy_wgc
      [] m = "proxy_dxgi" -> entry = "proxy" /\ caps.proxy_dxgi
      [] m \in AdvancedNames -> entry \in {"proxy", "advanced"}
      [] m \in EnhancedNames -> entry \in {"proxy", "enhanced"}
      [] OTHER -> entry \in {"proxy", "enhanced"} /\ hwnd # "None"

ExpectedOrder == SelectSeq(WrittenOrder, InChain)

IsPrefix(p, q) ==
    /\ Len(p) <= Len(q)
    /\ \A i \in 1..Len(p) : p[i] = q[i]

\* the backends are attempted in the fixed order, each only after all the
\* earlier ones failed, and the first success ends the request
FixedOrderFirstSuccess ==
    /\ Len(outcomes) = Len(attempts)
    /\ IsPrefix(attempts, ExpectedOrder)
    /\ \A i \in 1..Len(outcomes) :
          outcomes[i] = "path" =>
             /\ i = Len(outcomes)
             /\ cpc = "done"
             /\ result.kind = "path"
             /\ result.backend = attempts[i]
    /\ (cpc = "done" /\ result.kind = "path") =>
          /\ Len(outcomes) > 0
          /\ outcomes[Len(outcomes)] = "path"

\* the request is over and its first two backends failed
FirstTwoFailed ==
    /\ cpc = "done"
    /\ Len(outcomes) >= 3
    /\ outcomes[1] = "fail"
    /\ outcomes[2] = "fail"

InvokedOnce(m) == Cardinality({i \in DOMAIN attempts : attempts[i] = m}) = 1

\* C3 (as amended): each orchestrator attempts its backends in the same
\* fixed order, a backend only after every backend before it failed, and
\* returns the first success without attempting a later backend; when the
\* first two backends fail the third is invoked exactly once, and its
\* result is returned if it is a success (if it fails, the chain goes on
\* to the fourth backend).
C3_FixedOrder ==
    /\ FixedOrderFirstSuccess
    /\ FirstTwoFailed =>
          /\ InvokedOnce(attempts[3])
          /\ outcomes[3] = "path" =>
                (result.kind = "path" /\ result.backend = attempts[3])

\* the first two backends failed and the third one's image was returned
C3_Witness ==
    /\ FirstTwoFailed
    /\ outcomes[3] = "path"
    /\ result.kind = "path"
    /\ result.backend = attempts[3]
    /\ entry = "advanced"

\* C3 (as stated): ... for a chain whose first two backends fail, the
\* third is invoked exactly once and its result is what the orchestrator
\* returns: the request returns a path exactly when the third backend
\* produced one.
C3_ThirdResultReturned ==
    /\ FixedOrderFirstSuccess
    /\ FirstTwoFailed =>
          /\ InvokedOnce(attempts[3])
          /\ result.kind = "path" <=> outcomes[3] = "path"

\* C4: the orchestrators never raise: no request ends with an exception
\* reaching the caller, whatever the backends do and also when resolving
\* the window name fails.
C4_NeverRaises == result.kind # "raised"

\* the last backend of the current request's chain
LastOfChain == ExpectedOrder[Len(ExpectedOrder)]

\* C5: an exception raised inside a backend becomes that backend's
\* failure: it does not reach the orchestrator's caller, and it does not
\* end the request unless the backend was the last of the chain, so the
\* next backend is still to be attempted.
C5_ExceptionIsolated ==
    lastRaised =>
        /\ result.kind # "raised"
        /\ Len(outcomes) > 0
        /\ outcomes[Len(outcomes)] = "fail"
        /\ cpc = "done" => attempts[Len(attempts)] = LastOfChain
        /\ cpc # "done" => ENABLED (AdvancedStep \/ EnhancedStep \/ EnhancedFallback \/ ProxyDXGI)

\* the first backend of the advanced chain raised and the loop is at the
\* second one
C5_Witness ==
    /\ lastRaised
    /\ entry = "advanced"
    /\ cpc = "advanced"
    /\ attempts = <<"adv_wgc">>
    /\ idx = 2

\* C6: a frame whose mean intensity is below the threshold is never
\* returned as a request's successful result -- here for the backend that
\* computes the mean, capture_using_gdi_window_redir.
C6_DarkFrameNotReturned ==
    (cpc = "done" /\ result.kind = "path" /\ result.backend = "adv_gdi_redir")
        => result.mean >= DarkThreshold

\* every capability flag of the engine is false
AllDisabled ==
    /\ ~caps.proxy_wgc
    /\ ~caps.proxy_dxgi
    /\ ~caps.adv_wgc
    /\ ~caps.d3d_available
    /\ ~dxgi_duplication

\* the invoked backends that went past their capability test
UsedBackends == SelectSeq(attempts, Available)

\* C19: a backend whose capability flag is false never gets to capture: it
\* yields no image in any request; and a request made to the advanced
\* engine with every capability flag false uses no backend at all and ends
\* without an image.
C19_DisabledNotAttempted ==
    /\ \A i \in DOMAIN attempts :
          ~Available(attempts[i]) => outcomes[i] = "fail"
    /\ (AllDisabled /\ entry = "advanced") =>
          /\ UsedBackends = <<>>
          /\ cpc = "done" => result.kind # "path"

\* the backend method of the duplication session has been invoked
DuplicationInvoked == \E i \in DOMAIN attempts : attempts[i] = "adv_dxgi"

\* C20: after an initialization that failed for a transient reason (the
\* duplicator limit was reached) the duplication backend is skipped for one
\* request only: when a later request gets to the backend, initialization
\* has been attempted again.
C20_TransientFailureRetried ==
    (initFail = "DuplMax" /\ requests >= 2 /\ DuplicationInvoked) =>
        inits >= 2


(***************************************************************************)
(* Properties of the frame conversion.                                     *)
(***************************************************************************)
\* C21: for every row pitch of at least width * 4, the image built from a
\* mapped frame has exactly width columns and height rows, and its pixel
\* (x, y) takes R, G and B from the bytes y * pitch + 4x + 2, + 1 and + 0 of
\* the mapped buffer, so that no padding byte appears in the image.
C21_PitchSkipped ==
    ipc = "converted" =>
        /\ image.width = mapped.width
        /\ image.height = mapped.height
        /\ DOMAIN image.px = (0..(mapped.width - 1)) \X (0..(mapped.height - 1))
        /\ \A p \in DOMAIN image.px :
              LET at == p[2] * mapped.RowPitch + 4 * p[1]
              IN  /\ image.px[p].R = mapped.pData[at + 2]
                  /\ image.px[p].G = mapped.pData[at + 1]
                  /\ image.px[p].B = mapped.pData[at]


(***************************************************************************)
(* Properties of the window captures that crop a monitor frame.            *)
(***************************************************************************)
\* the window as MonitorFromWindow placed it
ItsMonitor == Monitors[monitor]

\* the window is partly on its monitor and partly beyond one of its edges
Overhangs ==
    /\ Overlap(rect, ItsMonitor) > 0
    /\ \/ rect.left < ItsMonitor.left
       \/ rect.top < ItsMonitor.top
       \/ rect.right > ItsMonitor.right
       \/ rect.bottom > ItsMonitor.bottom

\* the backend returned the path of an image cropped from an unpadded frame
CroppedFrame ==
    /\ kpc = "done"
    /\ kret = "path"
    /\ opened.width = Monitors[opened.output].right - Monitors[opened.output].left

\* C22: for a window that extends past an edge of its monitor, the cropped
\* image is min(frameWidth, windowRight - monitorLeft) - max(0, windowLeft -
\* monitorLeft) wide, which for a window overhanging the right edge is the
\* monitor's width minus the window's left offset, likewise for the height,
\* and the crop bounds lie between 0 and the frame's size.
C22_CropClamped ==
    (CroppedFrame /\ Overhangs) =>
        /\ saved.right - saved.left =
              Min(opened.width, rect.right - ItsMonitor.left)
                - Max(0, rect.left - ItsMonitor.left)
        /\ saved.bottom - saved.top =
              Min(opened.height, rect.bottom - ItsMonitor.top)
                - Max(0, rect.top - ItsMonitor.top)
        /\ (rect.right > ItsMonitor.right /\ rect.left >= ItsMonitor.left) =>
              saved.right - saved.left =
                (ItsMonitor.right - ItsMonitor.left) - (rect.left - ItsMonitor.left)
        /\ (rect.bottom > ItsMonitor.bottom /\ rect.top >= ItsMonitor.top) =>
              saved.bottom - saved.top =
                (ItsMonitor.bottom - ItsMonitor.top) - (rect.top - ItsMonitor.top)
        /\ 0 <= saved.left /\ saved.left <= saved.right
        /\ saved.right <= opened.width
        /\ 0 <= saved.top /\ saved.top <= saved.bottom
        /\ saved.bottom <= opened.height


\* the crop rectangle was computed and clamped to no area
ZeroArea ==
    /\ kpc = "done"
    /\ opened # NoFrame
    /\ box.right <= box.left \/ box.bottom <= box.top

\* C23: a window whose rectangle clamps to zero area makes the backend
\* report a failure: it returns None, not the path of any image.
C23_ZeroAreaFails == ZeroArea => kret = "None"


\* C24: a window capture through the duplication backend takes its frame
\* from the session of the monitor the window is on, whichever monitor that
\* is, and the image it returns begins, on the desktop, where the part of
\* the window on that monitor begins.
C24_FrameOfWindowMonitor ==
    (/\ kfn = "dxgi"
     /\ opened # NoFrame
     /\ outputs = <<0, 1>>                     \* every output has a session
     /\ Overlap(rect, ItsMonitor) > 0) =>      \* the window is on its monitor
        /\ opened.output = monitor
        /\ kret = "path" =>
              /\ Monitors[saved.output].left + saved.left
                    = Max(rect.left, ItsMonitor.left)
              /\ Monitors[saved.output].top + saved.top
                    = Max(rect.top, ItsMonitor.top)


(***************************************************************************)
(* Properties of what the capture operations return.                       *)
(***************************************************************************)
\* the ways capture_screenshot ends that are genuine failures
GenuineFailures == {"uninitialized", "driver_error", "error"}

\* C25: a timed-out acquire makes capture_screenshot return (not raise) a
\* value that differs from the value it returns for a genuine failure: an
\* uninitialized session, a driver error, a conversion or save error.
C25_TimeoutDistinguishable ==
    \A i, j \in DOMAIN history :
        (history[i] = "timeout" /\ history[j] \in GenuineFailures) =>
            Returned(history[i]) # Returned(history[j])


\* C26: every path a capture operation has returned names a completely
\* written image file inside the configured screenshot directory, called
\* <backend identifier>_<timestamp>.png; no path is returned for a file
\* that was not written or is empty.
C26_ReturnedPathWritten ==
    \A p \in handed :
        /\ p \in Paths
        /\ disk[p] = "complete"
        /\ p.dir = screenshot_dir
        /\ p.ext = ".png"


(***************************************************************************)
(* Properties of the take_screenshot request handler.                      *)
(***************************************************************************)
\* the handler has answered a request that reached the engine
Answered == hpc = "idle" /\ filename # "not_called"

\* C27: the handler answers (it never raises) with status success or
\* error: success, carrying the screenshot path, exactly when the engine
\* returned a path, and error only when the engine found every backend
\* failed and returned no path, with the handler's own message rather than
\* the text of some failure inside the engine.
C27_ErrorOnlyWhenExhausted ==
    Answered =>
        /\ response.status \in {"success", "error"}
        /\ response.status = "success" <=> filename = "path"
        /\ response.status = "success" => response.screenshot_path = result.backend
        /\ response.status = "error" =>
              /\ filename = "None"
              /\ response.message = Failed.message


(***************************************************************************)
(* Properties of session ownership.                                        *)
(***************************************************************************)
\* C28: in every reachable state the process holds at most one live
\* duplication session per output index.
C28_OneSessionPerOutput ==
    \A a, b \in live : a.output = b.output => a = b


(***************************************************************************)
(* Properties of the security manager.                                     *)
(***************************************************************************)
\* C29: for every message m made of JSON values and every initialization
\* vector the encryption draws, decrypt_message(encrypt_message(m))
\* returns m.
C29_EncryptionRoundTrip ==
    (xpc = "decrypted" /\ JsonNative(message))
        => (~decrypted.raises /\ decrypted.message = message)

\* C29 as stated: every message, a tuple inside it included, comes back
\* equal from decrypt_message(encrypt_message(m)).
C29_EveryMessageRoundTrip ==
    xpc = "decrypted" => (~decrypted.raises /\ decrypted.message = message)

\* a message of more than one cipher block, encrypted under an
\* initialization vector that is not zero, has been decrypted
C29_Witness ==
    /\ xpc = "decrypted"
    /\ Len(message) > BlockLen
    /\ IvOf(B64Decode(encrypted).bytes) # [i \in 1..BlockLen |-> 0]
    /\ decrypted.message = message

\* C30: verify_message accepts every signed message as sign_message
\* returned it, and returns False, never raising, for a signed message
\* whose signature or whose message was changed after signing.
C30_TamperingDetected ==
    xpc = "verified"
        => verified = (IF tampering = "none" THEN "True" ELSE "False")


(***************************************************************************)
(* Further properties of the duplication session.                          *)
(***************************************************************************)
\* C31: ReleaseFrame is never invoked on a session that holds no frame:
\* every step that makes a ReleaseFrame call (the finally clause, the
\* except clause, _cleanup) starts with a frame held by the driver.
C31_ReleaseOnlyHeldFrame ==
    [][releaseFrames' > releaseFrames => frameHeld]_vars

(***************************************************************************)
(* Further properties of the duplication capture object.                   *)
(***************************************************************************)
\* C32: after initialization, whichever outputs failed to initialize,
\* capture_full_screen uses the session whose output_index is 0, and
\* returns None without using any session when output 0 has none.
C32_FullScreenIsPrimary ==
    opc = "captured" =>
        IF [owner |-> fullshot.owner, output |-> 0] \in live
        THEN fullshot.output = 0
        ELSE fullshot.output = 0 - 1 /\ fullshot.ret = "None"

(***************************************************************************)
(* Further properties of the files the capture operations write.           *)
(***************************************************************************)
\* the files that exist now and did not when the latest operation began
Written == {p \in Paths : disk[p] # "absent" /\ entryDisk[p] = "absent"}

\* C33: a capture operation that returned a path has added exactly one
\* file to the screenshot directory, the one it returned, and an operation
\* that failed has added none.
C33_OneFilePerRequest ==
    (fpc = "idle" /\ clock > 1) =>
        Written = (IF fret = NoPath THEN {} ELSE {fret})

(***************************************************************************)
(* Further properties of the orchestrators.                                *)
(***************************************************************************)
\* each of the five methods of EnhancedScreenCapture was attempted and
\* failed
AllFiveFailed ==
    \A m \in EnhancedNames :
        \E i \in DOMAIN attempts : attempts[i] = m /\ outcomes[i] = "fail"

\* the attempts of capture_full_screen made by the orchestrator
FullScreenAttempts == {i \in DOMAIN attempts : attempts[i] = "enh_fullscreen"}

\* C34: when EnhancedScreenCapture.capture_screenshot has a window handle
\* and its five methods failed, it attempts capture_full_screen exactly
\* once and returns what that attempt gave, a path or failure; without a
\* handle it returns failure with no further attempt.  The full-screen
\* capture is never attempted before the five methods failed.
C34_FullScreenFallback ==
    /\ FullScreenAttempts # {} => AllFiveFailed /\ hwnd # "None"
    /\ (cpc = "done" /\ AllFiveFailed) =>
          IF hwnd # "None"
          THEN /\ Cardinality(FullScreenAttempts) = 1
               /\ attempts[Len(attempts)] = "enh_fullscreen"
               /\ result.backend = "enh_fullscreen"
               /\ result.kind =
                     (IF outcomes[Len(outcomes)] = "path" THEN "path" ELSE "none")
          ELSE /\ FullScreenAttempts = {}
               /\ result.kind = "none"

\* a request with a handle whose five methods failed has returned the
\* whole-screen image of the fallback
C34_Witness ==
    /\ cpc = "done"
    /\ entry = "enhanced"
    /\ hwnd = "h"
    /\ AllFiveFailed
    /\ result = [kind |-> "path", backend |-> "enh_fullscreen", mean |-> 128]

\* the proxy was given a window name and its lookup found no visible
\* window of that name
Unmatched ==
    /\ entry = "proxy"
    /\ window # "None"
    /\ cpc \notin {"idle", "resolve"}
    /\ hwnd = "None"
    /\ result.kind # "raised"

\* C35: ScreenCaptureProxy.capture_screenshot with a window name that
\* matches no visible window returns failure having attempted no backend,
\* and the step that finds no window changes no capture session, no
\* capture object and no file.
C35_UnmatchedNameDoesNothing ==
    /\ [](Unmatched =>
            /\ cpc = "done"
            /\ result.kind = "none"
            /\ attempts = <<>>
            /\ outcomes = <<>>)
    /\ [][(Unmatched' /\ ~Unmatched) => UNCHANGED notChain]_vars

\* a request for a window that does not exist has ended
C35_Witness ==
    /\ Unmatched
    /\ cpc = "done"
    /\ result = [kind |-> "none", backend |-> "resolve", mean |-> 0]

(***************************************************************************)
(* Properties of the GDI backends.                                         *)
(***************************************************************************)
\* C36: when a GDI backend has returned, by any path, it has released the
\* window DC and deleted the memory DCs and the bitmap it created exactly
\* once each, and made no such call on an object it did not create.
C36_GdiObjectsReleased ==
    bpc = "done" =>
        \A o \in GdiObjectSet : freed[o] = (IF o \in made THEN 1 ELSE 0)

(***************************************************************************)
(* Properties of the pipe server.                                          *)
(***************************************************************************)
\* the HMAC at the end of the message is the HMAC of what precedes it
HmacValid(chars) ==
    LET decoded == B64Decode(chars)
        full == decoded.bytes
    IN  /\ ~decoded.raises
        /\ Hmac(SubSeq(full, 1, Len(full) - SigLen)) = SignatureOf(full)

\* C37: a request whose HMAC does not verify is not decrypted, is not
\* handed to a registered handler and gets no response, and the client
\* thread that read it is back at the head of its loop, ready for the
\* next request.
C37_UnverifiedRequestDropped ==
    [][(reads' > reads /\ ~HmacValid(last'.data)) =>
          /\ decrypts' = decrypts
          /\ dispatches' = dispatches
          /\ responses' = responses
          /\ cl'[last'.instance] = "top"]_vars

\* one client thread has read two requests: the first did not verify and
\* was dropped, the second was dispatched to its handler and answered
C37_Witness ==
    /\ instances = 1
    /\ reads = 2
    /\ HmacValid(last.data)
    /\ decrypts = 1
    /\ dispatches = 1
    /\ responses = 1

\* C38: once stop() has returned no message is handed to a registered
\* handler any more, and no pipe handle is ever closed more than once.
C38_NoDispatchAfterStop ==
    /\ [](\A h \in Instances : closes[h] <= 1)
    /\ [][dispatches' > dispatches => stp # "returned"]_vars

============================================================================
